---- MODULE Spec2Model ----
(***************************************************************************)
(* rsms/go-json: the caller-driven JSON Builder (builder.go) and the       *)
(* Reader (reader.go) layered over encoding/json's token decoder.          *)
(*                                                                         *)
(* Bytes are one-character strings; a byte slice is a sequence of them.    *)
(* A code point outside ASCII, a control byte and an invalid UTF-8 byte    *)
(* are each one element with a name of several characters ("U+2028",       *)
(* "x01", "xFF").  64-bit integers are four 16-bit limbs, least            *)
(* significant first, so that values above 2^31 and above 2^53 are exact.  *)
(***************************************************************************)
EXTENDS Integers, Sequences, FiniteSets

VARIABLES
    \* Builder (builder.go, type Builder)
    buf,         \* bytes.Buffer: the output JSON
    Err,         \* first error, NoErr when nil
    Indent,      \* pretty-printing unit, <<>> when compact
    KeyTerm,     \* key terminator, NilBytes until first use
    state,       \* builderState
    nestdepth,   \* int
    \* the calls made on the Builder since Reset, oldest first, and whether
    \* they form a well-formed sequence so far
    calls,
    wf,
    \* Reader (reader.go, type Reader)
    d,           \* *json.Decoder: unread input, token state, token stack
    err,         \* first error, NoErr when nil
    tok,         \* most recently parsed token
    delimstack,  \* []json.Delim
    delim,       \* top of logical delimstack, NoDelim when zero
    \* the call just made on the Reader, its result, and what a driver read back
    rcall,
    opened,
    got,
    fed,         \* number of chunks the source has delivered
    phase

bvars == <<buf, Err, Indent, KeyTerm, state, nestdepth, calls, wf>>
rvars == <<d, err, tok, delimstack, delim, rcall, opened, got, fed>>
vars == <<buf, Err, Indent, KeyTerm, state, nestdepth, calls, wf,
          d, err, tok, delimstack, delim, rcall, opened, got, fed, phase>>

(***************************************************************************)
(* Byte-slice helpers                                                      *)
(***************************************************************************)
NoErr == <<>>
NilBytes == <<"nil">>
NoDelim == "0"

RECURSIVE Repeat(_, _)
Repeat(s, n) ==
    IF n <= 0 THEN <<>> ELSE s \o Repeat(s, n - 1)

Last(s) == s[Len(s)]
Front(s) == SubSeq(s, 1, Len(s) - 1)
Drop(s, n) == SubSeq(s, n + 1, Len(s))
Take(s, n) == SubSeq(s, 1, n)
HasPrefix(s, p) == Len(p) <= Len(s) /\ SubSeq(s, 1, Len(p)) = p
HasSuffix(s, p) == Len(p) <= Len(s) /\ SubSeq(s, Len(s) - Len(p) + 1, Len(s)) = p

RECURSIVE Count(_, _)
Count(s, c) ==
    IF s = <<>> THEN 0 ELSE (IF Head(s) = c THEN 1 ELSE 0) + Count(Tail(s), c)

DigitChars == <<"0", "1", "2", "3", "4", "5", "6", "7", "8", "9">>
DigitChar(n) == DigitChars[n + 1]
IsDigit(c) == c \in {"0", "1", "2", "3", "4", "5", "6", "7", "8", "9"}
DigitVal(c) == CHOOSE n \in 0..9 : DigitChars[n + 1] = c

(***************************************************************************)
(* 64-bit integers: uint64 as four 16-bit limbs, int64 as sign + magnitude *)
(***************************************************************************)
Radix == 2^16

Zero64 == <<0, 0, 0, 0>>
U64(n) == <<n % Radix, (n \div Radix) % Radix, 0, 0>>
Pow2(k) == [i \in 1..4 |-> IF i = (k \div 16) + 1 THEN 2^(k % 16) ELSE 0]
MaxOfBits(k) == [i \in 1..4 |->
                   IF i < (k \div 16) + 1 THEN Radix - 1
                   ELSE IF i = (k \div 16) + 1 THEN 2^(k % 16) - 1 ELSE 0]

Less64(a, b) ==
    \E i \in 1..4 : a[i] < b[i] /\ \A j \in (i + 1)..4 : a[j] = b[j]
Leq64(a, b) == a = b \/ Less64(a, b)

\* x*10 + dgt, with the carry out of bit 63
MulAdd10(x, dgt) ==
    LET t1 == x[1] * 10 + dgt
        t2 == x[2] * 10 + (t1 \div Radix)
        t3 == x[3] * 10 + (t2 \div Radix)
        t4 == x[4] * 10 + (t3 \div Radix)
    IN  [v |-> <<t1 % Radix, t2 % Radix, t3 % Radix, t4 % Radix>>,
         carry |-> t4 \div Radix]

\* x div 10 and x mod 10
DivMod10(x) ==
    LET q4 == x[4] \div 10
        c3 == (x[4] % 10) * Radix + x[3]
        c2 == (c3 % 10) * Radix + x[2]
        c1 == (c2 % 10) * Radix + x[1]
    IN  [q |-> <<c1 \div 10, c2 \div 10, c3 \div 10, q4>>, r |-> c1 % 10]

Add64(a, b) ==
    LET t1 == a[1] + b[1]
        t2 == a[2] + b[2] + (t1 \div Radix)
        t3 == a[3] + b[3] + (t2 \div Radix)
        t4 == a[4] + b[4] + (t3 \div Radix)
    IN  [v |-> <<t1 % Radix, t2 % Radix, t3 % Radix, t4 % Radix>>,
         carry |-> t4 \div Radix]

\* index (0..63) of the highest set bit; -1 for zero
RECURSIVE BitLen16(_)
BitLen16(n) == IF n = 0 THEN 0 ELSE 1 + BitLen16(n \div 2)
TopBit(x) ==
    IF x[4] # 0 THEN 48 + BitLen16(x[4]) - 1
    ELSE IF x[3] # 0 THEN 32 + BitLen16(x[3]) - 1
    ELSE IF x[2] # 0 THEN 16 + BitLen16(x[2]) - 1
    ELSE BitLen16(x[1]) - 1

\* strconv.FormatUint(x, 10)
RECURSIVE FormatUint(_)
FormatUint(x) ==
    IF x[4] = 0 /\ x[3] = 0 /\ x[2] = 0 /\ x[1] < 10
    THEN <<DigitChar(x[1])>>
    ELSE LET qr == DivMod10(x) IN FormatUint(qr.q) \o <<DigitChar(qr.r)>>

\* int64 values
I64(neg, mag) == [neg |-> neg /\ mag # Zero64, mag |-> mag]
IntOf(n) == IF n < 0 THEN I64(TRUE, U64(-n)) ELSE I64(FALSE, U64(n))

\* strconv.FormatInt(v, 10) and fmt's %d of an int64
FormatInt(v) ==
    IF v.neg THEN <<"-">> \o FormatUint(v.mag) ELSE FormatUint(v.mag)


(***************************************************************************)
(* base64.RawStdEncoding: standard alphabet, no padding.  Data bytes are   *)
(* numbers 0..255.                                                         *)
(***************************************************************************)
B64Alphabet ==
    <<"A", "B", "C", "D", "E", "F", "G", "H", "I", "J", "K", "L", "M",
      "N", "O", "P", "Q", "R", "S", "T", "U", "V", "W", "X", "Y", "Z",
      "a", "b", "c", "d", "e", "f", "g", "h", "i", "j", "k", "l", "m",
      "n", "o", "p", "q", "r", "s", "t", "u", "v", "w", "x", "y", "z",
      "0", "1", "2", "3", "4", "5", "6", "7", "8", "9", "+", "/">>
B64Char(n) == B64Alphabet[n + 1]
IsB64(c) == \E n \in 0..63 : B64Alphabet[n + 1] = c
B64Val(c) == CHOOSE n \in 0..63 : B64Alphabet[n + 1] = c

RECURSIVE B64Encode(_)
B64Encode(data) ==
    IF Len(data) = 0 THEN <<>>
    ELSE IF Len(data) = 1 THEN
        <<B64Char(data[1] \div 4), B64Char((data[1] % 4) * 16)>>
    ELSE IF Len(data) = 2 THEN
        <<B64Char(data[1] \div 4),
          B64Char((data[1] % 4) * 16 + data[2] \div 16),
          B64Char((data[2] % 16) * 4)>>
    ELSE
        <<B64Char(data[1] \div 4),
          B64Char((data[1] % 4) * 16 + data[2] \div 16),
          B64Char((data[2] % 16) * 4 + data[3] \div 64),
          B64Char(data[3] % 64)>> \o B64Encode(Drop(data, 3))

\* DecodeString: the bytes decoded before the first bad symbol, and whether
\* the input was well formed
RECURSIVE B64Decode(_)
B64Decode(s) ==
    IF Len(s) = 0 THEN [buf |-> <<>>, ok |-> TRUE]
    ELSE IF \E i \in 1..(IF Len(s) < 4 THEN Len(s) ELSE 4) : ~IsB64(s[i])
        THEN [buf |-> <<>>, ok |-> FALSE]
    ELSE IF Len(s) = 1 THEN [buf |-> <<>>, ok |-> FALSE]
    ELSE IF Len(s) = 2 THEN
        [buf |-> <<B64Val(s[1]) * 4 + B64Val(s[2]) \div 16>>, ok |-> TRUE]
    ELSE IF Len(s) = 3 THEN
        [buf |-> <<B64Val(s[1]) * 4 + B64Val(s[2]) \div 16,
                   (B64Val(s[2]) % 16) * 16 + B64Val(s[3]) \div 4>>,
         ok |-> TRUE]
    ELSE LET rest == B64Decode(Drop(s, 4))
         IN  [buf |-> <<B64Val(s[1]) * 4 + B64Val(s[2]) \div 16,
                        (B64Val(s[2]) % 16) * 16 + B64Val(s[3]) \div 4,
                        (B64Val(s[3]) % 4) * 64 + B64Val(s[4])>> \o rest.buf,
              ok |-> rest.ok]

(***************************************************************************)
(* Builder (builder.go)                                                    *)
(***************************************************************************)
builderInit == "builderInit"
builderObj == "builderObj"
builderKey == "builderKey"
builderValue == "builderValue"

intSize == 64

\* the Builder as a value, so that calls compose (Key then a value, Any)
B == [buf |-> buf, Err |-> Err, Indent |-> Indent, KeyTerm |-> KeyTerm,
      state |-> state, nestdepth |-> nestdepth]

NewBuilder(indent) ==
    [buf |-> <<>>, Err |-> NoErr, Indent |-> indent, KeyTerm |-> NilBytes,
     state |-> builderInit, nestdepth |-> 0]

WriteByte(e, c) == [e EXCEPT !.buf = Append(@, c)]
Write(e, bs) == [e EXCEPT !.buf = @ \o (IF bs = NilBytes THEN <<>> ELSE bs)]

setError(e, er) == IF e.Err = NoErr THEN [e EXCEPT !.Err = er] ELSE e

\* writeNewLine with the indentation left out
writeNewLine_NoIndent(e) ==
    WriteByte(e, "\n")

writeNewLine(e) ==
    Write(WriteByte(e, "\n"), Repeat(e.Indent, e.nestdepth))

newLine(e) ==
    IF e.nestdepth > 0 /\ Len(e.Indent) > 0 THEN writeNewLine(e) ELSE e

\* startChunk that never writes the separating comma
startChunk_NoComma(e, nextstate) ==
    LET e1 == CASE e.state = builderValue -> newLine(e)
                [] e.state = builderObj ->
                     IF Len(e.Indent) > 0 THEN writeNewLine(e) ELSE e
                [] e.state = builderInit ->
                     IF e.KeyTerm = NilBytes
                     THEN [e EXCEPT !.KeyTerm =
                             IF Len(e.Indent) > 0 THEN <<":", " ">> ELSE <<":">>]
                     ELSE e
                [] OTHER -> e
    IN  [e1 EXCEPT !.state = nextstate]

\* startChunk that also writes a comma between a key and its value
startChunk_CommaAfterKey(e, nextstate) ==
    LET e1 == CASE e.state \in {builderValue, builderKey} -> newLine(WriteByte(e, ","))
                [] e.state = builderObj ->
                     IF Len(e.Indent) > 0 THEN writeNewLine(e) ELSE e
                [] e.state = builderInit ->
                     IF e.KeyTerm = NilBytes
                     THEN [e EXCEPT !.KeyTerm =
                             IF Len(e.Indent) > 0 THEN <<":", " ">> ELSE <<":">>]
                     ELSE e
                [] OTHER -> e
    IN  [e1 EXCEPT !.state = nextstate]

startChunk(e, nextstate) ==
    LET e1 == CASE e.state = builderValue -> newLine(WriteByte(e, ","))
                [] e.state = builderObj ->
                     IF Len(e.Indent) > 0 THEN writeNewLine(e) ELSE e
                [] e.state = builderInit ->
                     IF e.KeyTerm = NilBytes
                     THEN [e EXCEPT !.KeyTerm =
                             IF Len(e.Indent) > 0 THEN <<":", " ">> ELSE <<":">>]
                     ELSE e
                [] OTHER -> e
    IN  [e1 EXCEPT !.state = nextstate]

\* Reset that leaves the depth of nesting as it is
Reset_KeepDepth(e) ==
    [e EXCEPT !.buf = <<>>, !.Err = NoErr, !.state = builderInit]

Reset(e) ==
    [e EXCEPT !.buf = <<>>, !.Err = NoErr, !.state = builderInit, !.nestdepth = 0]

\* jsonSafeSet and the escapes of WriteJsonString, one element at a time
EscapeChar(c) ==
    CASE c = "\"" -> <<"\\", "\"">>
      [] c = "\\" -> <<"\\", "\\">>
      [] c = "\n" -> <<"\\", "n">>
      [] c = "\r" -> <<"\\", "r">>
      [] c = "\t" -> <<"\\", "t">>
      [] c = "x01" -> <<"\\", "u", "0", "0", "0", "1">>
      [] c = "x1f" -> <<"\\", "u", "0", "0", "1", "f">>
      [] c = "xFF" -> <<"\\", "u", "f", "f", "f", "d">>
      [] c = "U+2028" -> <<"\\", "u", "2", "0", "2", "8">>
      [] c = "U+2029" -> <<"\\", "u", "2", "0", "2", "9">>
      [] OTHER -> <<c>>

RECURSIVE EscapeAll(_)
EscapeAll(s) ==
    IF s = <<>> THEN <<>> ELSE EscapeChar(Head(s)) \o EscapeAll(Tail(s))

WriteJsonString(e, s) ==
    WriteByte(Write(WriteByte(e, "\""), EscapeAll(s)), "\"")

KeyBytes(e, k) ==
    LET e1 == WriteJsonString(startChunk(e, builderKey), k)
    IN  Write(e1, e1.KeyTerm)

Key(e, k) == KeyBytes(e, k)

RawKey(e, k) ==
    LET e1 == Write(startChunk(e, builderKey), k)
    IN  Write(e1, e1.KeyTerm)

Start(e, kind) ==
    LET e1 == WriteByte(startChunk(e, builderObj), kind)
    IN  [e1 EXCEPT !.nestdepth = @ + 1]

\* End without the key-without-value guard
End_NoKeyGuard(e, kind) ==
    LET e1 == [e EXCEPT !.nestdepth = @ - 1]
        e2 == IF e1.state # builderObj /\ Len(e1.Indent) > 0
              THEN writeNewLine(e1)
              ELSE e1
    IN  [WriteByte(e2, kind) EXCEPT !.state = builderValue]

End(e, kind) ==
    LET e1 == [e EXCEPT !.nestdepth = @ - 1]
        e2 == IF e1.state = builderKey
              THEN [e1 EXCEPT !.Err = <<"key without value">>]
              ELSE IF e1.state # builderObj /\ Len(e1.Indent) > 0
                   THEN writeNewLine(e1)
                   ELSE e1
    IN  [WriteByte(e2, kind) EXCEPT !.state = builderValue]

StartObject(e) == Start(e, "{")
EndObject(e) == End(e, "}")
StartArray(e) == Start(e, "[")
EndArray(e) == End(e, "]")

\* InObject that looks at the depth only
InObject_DepthOnly(e) == e.nestdepth > 0

InObject(e) == e.nestdepth > 0 /\ e.state # builderKey

jsonTrue == <<"t", "r", "u", "e">>
jsonFalse == <<"f", "a", "l", "s", "e">>
jsonNull == <<"n", "u", "l", "l">>

Raw(e, b) == Write(startChunk(e, builderValue), b)

Null(e) == Raw(e, jsonNull)

Bool(e, v) == IF v THEN Raw(e, jsonTrue) ELSE Raw(e, jsonFalse)

Blob(e, data) == WriteJsonString(startChunk(e, builderValue), B64Encode(data))

Str(e, s) == WriteJsonString(startChunk(e, builderValue), s)

StrBytes(e, s) == WriteJsonString(startChunk(e, builderValue), s)

\* Int quoting from 32 bits up instead of above 32 bits
BuilderInt_QuoteFrom32(e, v, bitsize) ==
    LET e1 == startChunk(e, builderValue)
    IN  IF bitsize >= 32
        THEN WriteJsonString(e1, FormatInt(v))
        ELSE Write(e1, FormatInt(v))

\* Builder.Int (Int is the set of integers here)
BuilderInt(e, v, bitsize) ==
    LET e1 == startChunk(e, builderValue)
    IN  IF bitsize > 32
        THEN WriteJsonString(e1, FormatInt(v))
        ELSE Write(e1, FormatInt(v))

Uint(e, v, bitsize) ==
    LET e1 == startChunk(e, builderValue)
    IN  IF bitsize > 32
        THEN WriteJsonString(e1, FormatUint(v))
        ELSE Write(e1, FormatUint(v))

(***************************************************************************)
(* float64 values handed to Float.  strconv.AppendFloat is a library call: *)
(* a value carries its two renderings (format 'f' and format 'e', shortest *)
(* precision) and the side of the 1e-6 / 1e21 cutoffs its magnitude is on. *)
(***************************************************************************)
FNaN == [kind |-> "nan", abs |-> "nan", f |-> <<"N", "a", "N">>, e |-> <<"N", "a", "N">>]
FPosInf == [kind |-> "inf", abs |-> "big", f |-> <<"+", "I", "n", "f">>,
            e |-> <<"+", "I", "n", "f">>]
FNegInf == [kind |-> "inf", abs |-> "big", f |-> <<"-", "I", "n", "f">>,
            e |-> <<"-", "I", "n", "f">>]
FZero == [kind |-> "finite", abs |-> "zero", f |-> <<"0">>,
          e |-> <<"0", "e", "+", "0", "0">>]
FOneHalf == [kind |-> "finite", abs |-> "mid", f |-> <<"1", ".", "5">>,
             e |-> <<"1", ".", "5", "e", "+", "0", "0">>]
FTiny == [kind |-> "finite", abs |-> "small",
          f |-> <<"0", ".", "0", "0", "0", "0", "0", "0", "1", "5">>,
          e |-> <<"1", ".", "5", "e", "-", "0", "7">>]
FHuge == [kind |-> "finite", abs |-> "big",
          f |-> <<"1", "0", "0", "0", "0", "0", "0", "0", "0", "0", "0",
                  "0", "0", "0", "0", "0", "0", "0", "0", "0", "0", "0">>,
          e |-> <<"1", "e", "+", "2", "1">>]
IsNonFinite(f) == f.kind \in {"nan", "inf"}

\* Float that records the error of a non-finite value and writes nothing
Float_ReturnEarly(e, f, bits) ==
    IF IsNonFinite(f)
    THEN setError(e, <<"unsupported float64 value">> \o f.f)
    ELSE Write(startChunk(e, builderValue), f.f)

Float(e, f, bits) ==
    LET e1 == startChunk(e, builderValue)
        e2 == IF IsNonFinite(f)
              THEN setError(e1, <<"unsupported float64 value">> \o f.f)
              ELSE e1
        fmt == IF f.abs \in {"small", "big"} THEN "e" ELSE "f"
        b0 == IF fmt = "e" THEN f.e ELSE f.f
        n == Len(b0)
        b == IF fmt = "e" /\ n >= 4 /\ b0[n - 3] = "e" /\ b0[n - 2] = "-"
                /\ b0[n - 1] = "0"
             THEN Take(b0, n - 2) \o <<b0[n]>>
             ELSE b0
    IN  Write(e2, b)

(***************************************************************************)
(* Any: v is a value with its dynamic type.  A BuildJSON value is          *)
(* ExampleVec3 (an array of three floats); a MarshalJSON value carries the *)
(* bytes it returns or fails; anything else goes to json.Encoder, which    *)
(* writes the encoding and a line break.                                   *)
(***************************************************************************)
Any(e, v) ==
    CASE v.t = "bool" -> Bool(e, v.v)
      [] v.t = "int" -> BuilderInt(e, v.v, intSize)
      [] v.t = "int8" -> BuilderInt(e, v.v, 8)
      [] v.t = "int16" -> BuilderInt(e, v.v, 16)
      [] v.t = "int32" -> BuilderInt(e, v.v, 32)
      [] v.t = "int64" -> BuilderInt(e, v.v, 64)
      [] v.t = "uint" -> Uint(e, v.v, intSize)
      [] v.t = "uint8" -> Uint(e, v.v, 8)
      [] v.t = "uint16" -> Uint(e, v.v, 16)
      [] v.t = "uint32" -> Uint(e, v.v, 32)
      [] v.t = "uint64" -> Uint(e, v.v, 64)
      [] v.t = "float32" -> Float(e, v.v, 32)
      [] v.t = "float64" -> Float(e, v.v, 64)
      [] v.t = "string" -> Str(e, v.v)
      [] v.t = "[]byte" -> Blob(e, v.v)
      [] v.t = "nil" -> Null(e)
      [] v.t = "BuildJSON" ->
           EndArray(Float(Float(Float(StartArray(e), v.v[1], 64), v.v[2], 64),
                          v.v[3], 64))
      [] v.t = "MarshalJSON" ->
           IF v.v.err # NoErr THEN setError(e, v.v.err) ELSE Raw(e, v.v.json)
      [] OTHER ->
           setError(Write(startChunk(e, builderValue), v.v.json \o <<"\n">>),
                    v.v.err)

(***************************************************************************)
(* The JSON grammar (RFC 8259) as a byte-at-a-time recogniser, after       *)
(* encoding/json's scanner: mode is what may come next, stack the open     *)
(* containers ("arr", "objKey" after a key, "objVal" after a colon).       *)
(* A byte sequence is a prefix of a valid document iff it is never         *)
(* rejected.                                                               *)
(***************************************************************************)
IsSpace(c) == c \in {" ", "\t", "\r", "\n"}
IsControl(c) == c \in {"\n", "\r", "\t", "x01", "x1f"}
IsHex(c) == IsDigit(c) \/ c \in {"a", "b", "c", "d", "e", "f",
                                 "A", "B", "C", "D", "E", "F"}

ScanInit == [mode |-> "beginValue", stack |-> <<>>, lit |-> <<>>]
ScanError(st) == [st EXCEPT !.mode = "error"]

\* a value has just ended: what the enclosing container expects next
ScanEndValue(st) ==
    IF st.stack = <<>> THEN [st EXCEPT !.mode = "endTop"]
    ELSE IF Last(st.stack) = "objKey" THEN [st EXCEPT !.mode = "colon"]
    ELSE IF Last(st.stack) = "objVal" THEN [st EXCEPT !.mode = "objComma"]
    ELSE [st EXCEPT !.mode = "arrComma"]

ScanBeginValue(st, c) ==
    CASE c = "{" -> [st EXCEPT !.mode = "beginStringOrEmpty",
                               !.stack = Append(@, "objKey")]
      [] c = "[" -> [st EXCEPT !.mode = "beginValueOrEmpty",
                               !.stack = Append(@, "arr")]
      [] c = "\"" -> [st EXCEPT !.mode = "inString"]
      [] c = "-" -> [st EXCEPT !.mode = "neg"]
      [] c = "0" -> [st EXCEPT !.mode = "0"]
      [] IsDigit(c) /\ c # "0" -> [st EXCEPT !.mode = "1"]
      [] c = "t" -> [st EXCEPT !.mode = "lit", !.lit = Tail(jsonTrue)]
      [] c = "f" -> [st EXCEPT !.mode = "lit", !.lit = Tail(jsonFalse)]
      [] c = "n" -> [st EXCEPT !.mode = "lit", !.lit = Tail(jsonNull)]
      [] OTHER -> ScanError(st)

\* the byte after a complete value
ScanAfterValue(st, c) ==
    CASE st.mode = "endTop" -> IF IsSpace(c) THEN st ELSE ScanError(st)
      [] st.mode = "colon" ->
           IF IsSpace(c) THEN st
           ELSE IF c = ":"
                THEN [st EXCEPT !.mode = "beginValue",
                                !.stack = Append(Front(@), "objVal")]
                ELSE ScanError(st)
      [] st.mode = "objComma" ->
           IF IsSpace(c) THEN st
           ELSE IF c = ","
                THEN [st EXCEPT !.mode = "beginString",
                                !.stack = Append(Front(@), "objKey")]
           ELSE IF c = "}" THEN ScanEndValue([st EXCEPT !.stack = Front(@)])
           ELSE ScanError(st)
      [] st.mode = "arrComma" ->
           IF IsSpace(c) THEN st
           ELSE IF c = "," THEN [st EXCEPT !.mode = "beginValue"]
           ELSE IF c = "]" THEN ScanEndValue([st EXCEPT !.stack = Front(@)])
           ELSE ScanError(st)

ScanStep(st, c) ==
    CASE st.mode = "error" -> st
      [] st.mode = "beginValue" ->
           IF IsSpace(c) THEN st ELSE ScanBeginValue(st, c)
      [] st.mode = "beginValueOrEmpty" ->
           IF IsSpace(c) THEN st
           ELSE IF c = "]" THEN ScanEndValue([st EXCEPT !.stack = Front(@)])
           ELSE ScanBeginValue(st, c)
      [] st.mode = "beginStringOrEmpty" ->
           IF IsSpace(c) THEN st
           ELSE IF c = "}" THEN ScanEndValue([st EXCEPT !.stack = Front(@)])
           ELSE IF c = "\"" THEN [st EXCEPT !.mode = "inString"]
           ELSE ScanError(st)
      [] st.mode = "beginString" ->
           IF IsSpace(c) THEN st
           ELSE IF c = "\"" THEN [st EXCEPT !.mode = "inString"]
           ELSE ScanError(st)
      [] st.mode = "inString" ->
           IF c = "\"" THEN ScanEndValue(st)
           ELSE IF c = "\\" THEN [st EXCEPT !.mode = "inStringEsc"]
           ELSE IF IsControl(c) THEN ScanError(st)
           ELSE st
      [] st.mode = "inStringEsc" ->
           IF c \in {"b", "f", "n", "r", "t", "\\", "/", "\""}
           THEN [st EXCEPT !.mode = "inString"]
           ELSE IF c = "u" THEN [st EXCEPT !.mode = "u1"]
           ELSE ScanError(st)
      [] st.mode = "u1" -> IF IsHex(c) THEN [st EXCEPT !.mode = "u2"] ELSE ScanError(st)
      [] st.mode = "u2" -> IF IsHex(c) THEN [st EXCEPT !.mode = "u3"] ELSE ScanError(st)
      [] st.mode = "u3" -> IF IsHex(c) THEN [st EXCEPT !.mode = "u4"] ELSE ScanError(st)
      [] st.mode = "u4" -> IF IsHex(c) THEN [st EXCEPT !.mode = "inString"] ELSE ScanError(st)
      [] st.mode = "neg" ->
           IF c = "0" THEN [st EXCEPT !.mode = "0"]
           ELSE IF IsDigit(c) THEN [st EXCEPT !.mode = "1"]
           ELSE ScanError(st)
      [] st.mode = "1" ->
           IF IsDigit(c) THEN st
           ELSE IF c = "." THEN [st EXCEPT !.mode = "dot"]
           ELSE IF c \in {"e", "E"} THEN [st EXCEPT !.mode = "e"]
           ELSE ScanAfterValue(ScanEndValue(st), c)
      [] st.mode = "0" ->
           IF c = "." THEN [st EXCEPT !.mode = "dot"]
           ELSE IF c \in {"e", "E"} THEN [st EXCEPT !.mode = "e"]
           ELSE ScanAfterValue(ScanEndValue(st), c)
      [] st.mode = "dot" ->
           IF IsDigit(c) THEN [st EXCEPT !.mode = "dot0"] ELSE ScanError(st)
      [] st.mode = "dot0" ->
           IF IsDigit(c) THEN st
           ELSE IF c \in {"e", "E"} THEN [st EXCEPT !.mode = "e"]
           ELSE ScanAfterValue(ScanEndValue(st), c)
      [] st.mode = "e" ->
           IF c \in {"+", "-"} THEN [st EXCEPT !.mode = "esign"]
           ELSE IF IsDigit(c) THEN [st EXCEPT !.mode = "e0"]
           ELSE ScanError(st)
      [] st.mode = "esign" ->
           IF IsDigit(c) THEN [st EXCEPT !.mode = "e0"] ELSE ScanError(st)
      [] st.mode = "e0" ->
           IF IsDigit(c) THEN st ELSE ScanAfterValue(ScanEndValue(st), c)
      [] st.mode = "lit" ->
           IF c = Head(st.lit)
           THEN IF Len(st.lit) = 1 THEN ScanEndValue([st EXCEPT !.lit = <<>>])
                ELSE [st EXCEPT !.lit = Tail(@)]
           ELSE ScanError(st)
      [] OTHER -> ScanAfterValue(st, c)

RECURSIVE ScanFrom(_, _)
ScanFrom(st, bytes) ==
    IF bytes = <<>> \/ st.mode = "error" THEN st
    ELSE ScanFrom(ScanStep(st, Head(bytes)), Tail(bytes))

\* bytes is a prefix of some valid JSON document
ValidPrefix(bytes) == ScanFrom(ScanInit, bytes).mode # "error"
\* bytes is one complete valid JSON document
ValidDocument(bytes) ==
    LET st == ScanFrom(ScanInit, bytes)
    IN  st.stack = <<>> /\ st.mode \in {"endTop", "0", "1", "dot0", "e0"}

(***************************************************************************)
(* What a call sequence must respect for a JSON document to come out: one  *)
(* root value; inside an object every value follows exactly one key; a key *)
(* only directly inside an object; End only with a container open, not     *)
(* right after a key, with the closer of the matching Start; Raw and       *)
(* RawKey given valid JSON; only finite floats.                            *)
(***************************************************************************)
CloserOf(kind) == IF kind = "{" THEN "}" ELSE "]"
IsValueCall(c) ==
    c.op \in {"Null", "Bool", "Str", "StrBytes", "Blob", "Int", "Uint", "Float", "Raw",
              "Any"}
IsKeyCall(c) == c.op \in {"Key", "RawKey"}
IsChunkCall(c) == IsValueCall(c) \/ IsKeyCall(c) \/ c.op = "Start"

WFInit == [ok |-> TRUE, stack |-> <<>>, afterKey |-> FALSE, rootDone |-> FALSE]
TailOps == {"Start", "End", "Key", "Int"}

WFValueAllowed(w) ==
    IF w.stack = <<>> THEN ~w.rootDone
    ELSE IF Last(w.stack) = "{" THEN w.afterKey
    ELSE TRUE

WFAfterValue(w) ==
    [w EXCEPT !.afterKey = FALSE, !.rootDone = (w.stack = <<>>)]

WFStep(w, c) ==
    IF ~w.ok THEN w
    ELSE IF c.op = "Start" THEN
        IF WFValueAllowed(w)
        THEN [w EXCEPT !.stack = Append(@, c.a), !.afterKey = FALSE]
        ELSE [w EXCEPT !.ok = FALSE]
    ELSE IF c.op = "End" THEN
        IF w.stack # <<>> /\ ~w.afterKey /\ c.a = CloserOf(Last(w.stack))
        THEN [w EXCEPT !.stack = Front(@), !.rootDone = (Len(w.stack) = 1)]
        ELSE [w EXCEPT !.ok = FALSE]
    ELSE IF IsKeyCall(c) THEN
        IF /\ w.stack # <<>>
           /\ Last(w.stack) = "{"
           /\ ~w.afterKey
           /\ (c.op = "RawKey" =>
                 (c.a # <<>> /\ Head(c.a) = "\"" /\ ValidDocument(c.a)))
        THEN [w EXCEPT !.afterKey = TRUE]
        ELSE [w EXCEPT !.ok = FALSE]
    ELSE
        IF /\ WFValueAllowed(w)
           /\ (c.op = "Raw" => ValidDocument(c.a))
           /\ (c.op = "Float" => ~IsNonFinite(c.a))
        THEN WFAfterValue(w)
        ELSE [w EXCEPT !.ok = FALSE]

RECURSIVE WFScan(_, _)
WFScan(w, cs) == IF cs = <<>> THEN w ELSE WFScan(WFStep(w, Head(cs)), Tail(cs))
WellFormed(cs) == WFScan(WFInit, cs).ok

(***************************************************************************)
(* Builder calls as actions.  Every call is logged in calls.               *)
(***************************************************************************)
SetB(e) ==
    /\ buf' = e.buf
    /\ Err' = e.Err
    /\ Indent' = e.Indent
    /\ KeyTerm' = e.KeyTerm
    /\ state' = e.state
    /\ nestdepth' = e.nestdepth

Call(op, a, b) == [op |-> op, a |-> a, b |-> b]
Logged(c) ==
    /\ calls' = Append(calls, c)
    /\ wf' = WFStep(wf, c)
    /\ UNCHANGED <<rvars, phase>>

DoStart(kind) == SetB(Start(B, kind)) /\ Logged(Call("Start", kind, 0))
DoEnd(kind) == SetB(End(B, kind)) /\ Logged(Call("End", kind, 0))
DoKey(k) == SetB(Key(B, k)) /\ Logged(Call("Key", k, 0))
DoRawKey(k) == SetB(RawKey(B, k)) /\ Logged(Call("RawKey", k, 0))
DoNull == SetB(Null(B)) /\ Logged(Call("Null", 0, 0))
DoBool(v) == SetB(Bool(B, v)) /\ Logged(Call("Bool", v, 0))
DoStr(s) == SetB(Str(B, s)) /\ Logged(Call("Str", s, 0))
DoStrBytes(s) == SetB(StrBytes(B, s)) /\ Logged(Call("StrBytes", s, 0))
DoBlob(data) == SetB(Blob(B, data)) /\ Logged(Call("Blob", data, 0))
DoInt(v, bitsize) == SetB(BuilderInt(B, v, bitsize)) /\ Logged(Call("Int", v, bitsize))
DoUint(v, bitsize) == SetB(Uint(B, v, bitsize)) /\ Logged(Call("Uint", v, bitsize))
DoFloat(f, bits) == SetB(Float(B, f, bits)) /\ Logged(Call("Float", f, bits))
DoRaw(b) == SetB(Raw(B, b)) /\ Logged(Call("Raw", b, 0))
DoReset ==
    SetB(Reset(B)) /\ calls' = <<>> /\ wf' = WFInit /\ UNCHANGED <<rvars, phase>>

DoAny(v) == SetB(Any(B, v)) /\ Logged(Call("Any", v, 0))

\* two call logs are the same (arguments compared only under the same op)
SameCalls(cs1, cs2) ==
    /\ Len(cs1) = Len(cs2)
    /\ \A i \in 1..Len(cs1) :
          /\ cs1[i].op = cs2[i].op
          /\ cs1[i].a = cs2[i].a
          /\ cs1[i].b = cs2[i].b

\* a logged call applied to a Builder value, and a whole log replayed
Apply(e, c) ==
    CASE c.op = "Start" -> Start(e, c.a)
      [] c.op = "End" -> End(e, c.a)
      [] c.op = "Key" -> Key(e, c.a)
      [] c.op = "RawKey" -> RawKey(e, c.a)
      [] c.op = "Null" -> Null(e)
      [] c.op = "Bool" -> Bool(e, c.a)
      [] c.op = "Str" -> Str(e, c.a)
      [] c.op = "StrBytes" -> StrBytes(e, c.a)
      [] c.op = "Blob" -> Blob(e, c.a)
      [] c.op = "Int" -> BuilderInt(e, c.a, c.b)
      [] c.op = "Uint" -> Uint(e, c.a, c.b)
      [] c.op = "Float" -> Float(e, c.a, c.b)
      [] c.op = "Raw" -> Raw(e, c.a)
      [] c.op = "Any" -> Any(e, c.a)

RECURSIVE Replay(_, _)
Replay(e, cs) == IF cs = <<>> THEN e ELSE Replay(Apply(e, Head(cs)), Tail(cs))

(***************************************************************************)
(* encoding/json's Decoder as the Reader uses it: More, Token and the      *)
(* scalar values Token decodes.  The Decoder is a record: in is the input  *)
(* not yet consumed, open tells that the source may still deliver bytes,   *)
(* tokenState and tokenStack are the Decoder's fields of those names.      *)
(* Errors are tuples of words; the input offset they print is left out.    *)
(***************************************************************************)
EOFErr == <<"EOF">>
UnexpectedEOF == <<"unexpected EOF">>
SyntaxError(msg) == <<"SyntaxError">> \o msg

\* a json.Token: Delim, string, float64 (kept as its numeral), bool, nil
DelimTok(c) == [k |-> "Delim", v |-> <<c>>]
StringTok(s) == [k |-> "string", v |-> s]
NumberTok(s) == [k |-> "float64", v |-> s]
BoolTok(b) == [k |-> "bool", v |-> IF b THEN jsonTrue ELSE jsonFalse]
NilTok == [k |-> "nil", v |-> <<>>]

RECURSIVE SkipSpace(_)
SkipSpace(in) ==
    IF in # <<>> /\ IsSpace(Head(in)) THEN SkipSpace(Tail(in)) ELSE in

\* the code point a \uXXXX escape denotes
UnicodeEscape(h) ==
    CASE h = <<"0", "0", "0", "1">> -> "x01"
      [] h = <<"0", "0", "1", "f">> -> "x1f"
      [] h = <<"0", "0", "0", "a">> -> "\n"
      [] h = <<"0", "0", "2", "2">> -> "\""
      [] OTHER -> "U+" \o h[1] \o h[2] \o h[3] \o h[4]

SimpleEscape(c) ==
    CASE c = "n" -> "\n"
      [] c = "r" -> "\r"
      [] c = "t" -> "\t"
      [] c = "b" -> "x08"
      [] c = "f" -> "x0c"
      [] OTHER -> c

\* a string literal from its opening quote at in[i-1] on: the decoded
\* characters and the number of bytes of the literal, or the error
RECURSIVE ReadString(_, _, _)
ReadString(in, i, acc) ==
    IF i > Len(in) THEN [err |-> UnexpectedEOF, v |-> acc, n |-> Len(in)]
    ELSE LET c == in[i] IN
         CASE c = "\"" -> [err |-> NoErr, v |-> acc, n |-> i]
           [] c = "\\" ->
                IF i + 1 > Len(in)
                THEN [err |-> UnexpectedEOF, v |-> acc, n |-> Len(in)]
                ELSE IF in[i + 1] \in {"\"", "\\", "/", "b", "f", "n", "r", "t"}
                THEN ReadString(in, i + 2, Append(acc, SimpleEscape(in[i + 1])))
                ELSE IF in[i + 1] = "u"
                THEN IF i + 5 > Len(in)
                     THEN [err |-> UnexpectedEOF, v |-> acc, n |-> Len(in)]
                     ELSE IF \A j \in 2..5 : IsHex(in[i + j])
                     THEN ReadString(in, i + 6,
                                     Append(acc, UnicodeEscape(SubSeq(in, i + 2, i + 5))))
                     ELSE [err |-> SyntaxError(<<"invalid character",
                                                 "in \\u hexadecimal character escape">>),
                           v |-> acc, n |-> i]
                ELSE [err |-> SyntaxError(<<"invalid character", in[i + 1],
                                            "in string escape code">>),
                      v |-> acc, n |-> i]
           [] IsControl(c) ->
                [err |-> SyntaxError(<<"invalid character", c, "in string literal">>),
                 v |-> acc, n |-> i]
           [] c = "xFF" -> ReadString(in, i + 1, Append(acc, "U+fffd"))
           [] OTHER -> ReadString(in, i + 1, Append(acc, c))

\* the end of the run of digits that starts at in[i]
RECURSIVE DigitsEnd(_, _)
DigitsEnd(in, i) ==
    IF i <= Len(in) /\ IsDigit(in[i]) THEN DigitsEnd(in, i + 1) ELSE i

\* a number literal at the head of in: the number of bytes it takes, 0 when
\* the bytes are no number (scanner states stateNeg .. stateE0).  i is the
\* index after the part read so far.
NumberExpDigits(in, i) ==
    IF DigitsEnd(in, i) = i THEN 0 ELSE DigitsEnd(in, i) - 1
NumberExp(in, i) ==
    IF i <= Len(in) /\ in[i] \in {"e", "E"}
    THEN IF i + 1 <= Len(in) /\ in[i + 1] \in {"+", "-"}
         THEN NumberExpDigits(in, i + 2)
         ELSE NumberExpDigits(in, i + 1)
    ELSE i - 1
NumberFrac(in, i) ==
    IF i <= Len(in) /\ in[i] = "."
    THEN IF DigitsEnd(in, i + 1) = i + 1 THEN 0
         ELSE NumberExp(in, DigitsEnd(in, i + 1))
    ELSE NumberExp(in, i)
NumberInt(in, i) ==
    IF i <= Len(in) /\ in[i] = "0" THEN NumberFrac(in, i + 1)
    ELSE IF DigitsEnd(in, i) = i THEN 0
    ELSE NumberFrac(in, DigitsEnd(in, i))
ReadNumber(in) ==
    IF in[1] = "-" THEN NumberInt(in, 2) ELSE NumberInt(in, 1)

\* Decoder.Decode(&x) for x of type interface{} at a scalar: the value as a
\* token, the input after it, and the error
StringRead(in, r) ==
    [err |-> r.err, t |-> IF r.err = NoErr THEN StringTok(r.v) ELSE NilTok,
     in |-> Drop(in, r.n)]
NumberRead(in, n) ==
    IF n = 0
    THEN [err |-> IF Len(in) = 1 THEN UnexpectedEOF
                  ELSE SyntaxError(<<"invalid character", in[2], "in numeric literal">>),
          t |-> NilTok, in |-> in]
    ELSE [err |-> NoErr, t |-> NumberTok(Take(in, n)), in |-> Drop(in, n)]
ReadScalar(in) ==
    CASE Head(in) = "\"" -> StringRead(in, ReadString(in, 2, <<>>))
      [] Head(in) = "-" \/ IsDigit(Head(in)) -> NumberRead(in, ReadNumber(in))
      [] HasPrefix(in, jsonTrue) ->
           [err |-> NoErr, t |-> BoolTok(TRUE), in |-> Drop(in, 4)]
      [] HasPrefix(in, jsonFalse) ->
           [err |-> NoErr, t |-> BoolTok(FALSE), in |-> Drop(in, 5)]
      [] HasPrefix(in, jsonNull) ->
           [err |-> NoErr, t |-> NilTok, in |-> Drop(in, 4)]
      [] OTHER ->
           [err |-> SyntaxError(<<"invalid character", Head(in),
                                  "looking for beginning of value">>),
            t |-> NilTok, in |-> in]

\* Decoder.peek: the next byte that is no white space, white space consumed.
\* At the end of the bytes delivered so far the read of an open source
\* waits for more: blocked marks a call that cannot return yet.
peek(dec) ==
    LET in == SkipSpace(dec.in)
    IN  [dec |-> [dec EXCEPT !.in = in,
                             !.blocked = @ \/ (in = <<>> /\ dec.open)],
         c |-> IF in = <<>> THEN "" ELSE Head(in),
         err |-> IF in = <<>> THEN EOFErr ELSE NoErr]

\* Decoder.More
DecMore(dec) ==
    LET p == peek(dec)
    IN  [dec |-> p.dec, ret |-> p.err = NoErr /\ p.c # "]" /\ p.c # "}"]

tokenValueAllowed(dec) ==
    dec.tokenState \in {"tokenTopValue", "tokenArrayStart", "tokenArrayValue",
                        "tokenObjectValue"}

tokenValueEnd(dec) ==
    CASE dec.tokenState \in {"tokenArrayStart", "tokenArrayValue"} ->
           [dec EXCEPT !.tokenState = "tokenArrayComma"]
      [] dec.tokenState = "tokenObjectValue" ->
           [dec EXCEPT !.tokenState = "tokenObjectComma"]
      [] OTHER -> dec

tokenError(dec, c) ==
    LET context ==
            CASE dec.tokenState \in {"tokenTopValue", "tokenArrayStart",
                                     "tokenArrayValue", "tokenObjectValue"} ->
                   "looking for beginning of value"
              [] dec.tokenState = "tokenArrayComma" -> "after array element"
              [] dec.tokenState = "tokenObjectKey" ->
                   "looking for beginning of object key string"
              [] dec.tokenState = "tokenObjectColon" -> "after object key"
              [] dec.tokenState = "tokenObjectComma" -> "after object key:value pair"
              [] OTHER -> ""
    IN  [dec |-> dec, t |-> NilTok,
         err |-> SyntaxError(<<"invalid character", c, context>>)]

\* Decoder.Decode of one scalar inside Token; a syntax error sticks in dec.err
Decoded(dec, r, nextState) ==
    IF r.err # NoErr
    THEN [dec |-> [dec EXCEPT !.err = IF r.err = UnexpectedEOF THEN NoErr ELSE r.err],
          t |-> NilTok, err |-> r.err]
    ELSE [dec |-> [dec EXCEPT !.in = r.in, !.tokenState = nextState],
          t |-> r.t, err |-> NoErr]
DecodeScalar(dec, nextState) ==
    IF dec.err # NoErr THEN [dec |-> dec, t |-> NilTok, err |-> dec.err]
    ELSE Decoded(dec, ReadScalar(dec.in), nextState)

\* Decoder.Token: [dec, t, err].  Consume is the scanp++ of each case, Pop
\* the return to the enclosing container's token state.
Consume(dec) == [dec EXCEPT !.in = Tail(@)]
Pop(dec) ==
    tokenValueEnd([dec EXCEPT !.tokenState = Last(dec.tokenStack),
                              !.tokenStack = Front(@)])

RECURSIVE Token(_)
TokenAt(dec, c) ==
    CASE c \in {"[", "{"} ->
           IF ~tokenValueAllowed(dec) THEN tokenError(dec, c)
           ELSE [dec |-> [Consume(dec) EXCEPT
                            !.tokenStack = Append(@, dec.tokenState),
                            !.tokenState = IF c = "[" THEN "tokenArrayStart"
                                           ELSE "tokenObjectStart"],
                 t |-> DelimTok(c), err |-> NoErr]
      [] c = "]" ->
           IF dec.tokenState \notin {"tokenArrayStart", "tokenArrayComma"}
           THEN tokenError(dec, c)
           ELSE [dec |-> Pop(Consume(dec)), t |-> DelimTok(c), err |-> NoErr]
      [] c = "}" ->
           IF dec.tokenState \notin {"tokenObjectStart", "tokenObjectComma"}
           THEN tokenError(dec, c)
           ELSE [dec |-> Pop(Consume(dec)), t |-> DelimTok(c), err |-> NoErr]
      [] c = ":" ->
           IF dec.tokenState # "tokenObjectColon" THEN tokenError(dec, c)
           ELSE Token([Consume(dec) EXCEPT !.tokenState = "tokenObjectValue"])
      [] c = "," ->
           IF dec.tokenState = "tokenArrayComma"
           THEN Token([Consume(dec) EXCEPT !.tokenState = "tokenArrayValue"])
           ELSE IF dec.tokenState = "tokenObjectComma"
           THEN Token([Consume(dec) EXCEPT !.tokenState = "tokenObjectKey"])
           ELSE tokenError(dec, c)
      [] c = "\"" /\ dec.tokenState \in {"tokenObjectStart", "tokenObjectKey"} ->
           DecodeScalar(dec, "tokenObjectColon")
      [] OTHER ->
           IF ~tokenValueAllowed(dec) THEN tokenError(dec, c)
           ELSE DecodeScalar(dec, tokenValueEnd(dec).tokenState)

Peeked(p) ==
    IF p.err # NoErr THEN [dec |-> p.dec, t |-> NilTok, err |-> p.err]
    ELSE TokenAt(p.dec, p.c)
Token(dec) == Peeked(peek(dec))

\* json.NewDecoder over a source holding data; open when more may follow
NewDecoder(data, open) ==
    [in |-> data, open |-> open, blocked |-> FALSE,
     tokenState |-> "tokenTopValue", tokenStack |-> <<>>, err |-> NoErr]

(***************************************************************************)
(* strconv.ParseUint / ParseInt (base 10) and the float64 conversions of   *)
(* Reader.Int and Reader.Uint                                              *)
(***************************************************************************)
ErrSyntax == <<"NumError", "ErrSyntax">>
ErrRange == <<"NumError", "ErrRange">>

\* the digits of s accumulated into acc; over is TRUE once 2^64 is passed
RECURSIVE ParseDigits(_, _)
ParseDigits(acc, s) ==
    IF s = <<>> THEN [v |-> acc, over |-> FALSE, bad |-> FALSE]
    ELSE IF ~IsDigit(Head(s)) THEN [v |-> acc, over |-> FALSE, bad |-> TRUE]
    ELSE LET m == MulAdd10(acc, DigitVal(Head(s)))
         IN  IF m.carry # 0
             THEN [v |-> acc, over |-> TRUE, bad |-> \E j \in 1..Len(s) : ~IsDigit(s[j])]
             ELSE ParseDigits(m.v, Tail(s))

BitSizeOf(bitsize) == IF bitsize = 0 THEN intSize ELSE bitsize

ParseUint(s, bitsize) ==
    LET bits == BitSizeOf(bitsize)
        maxVal == MaxOfBits(bits)
        p == ParseDigits(Zero64, s)
    IN  IF s = <<>> \/ p.bad THEN [v |-> Zero64, err |-> ErrSyntax]
        ELSE IF p.over \/ Less64(maxVal, p.v) THEN [v |-> maxVal, err |-> ErrRange]
        ELSE [v |-> p.v, err |-> NoErr]

ParseInt(s, bitsize) ==
    LET bits == BitSizeOf(bitsize)
        neg == s # <<>> /\ Head(s) = "-"
        s1 == IF s # <<>> /\ Head(s) \in {"+", "-"} THEN Tail(s) ELSE s
        un == ParseUint(s1, 64)
        cutoff == Pow2(bits - 1)
    IN  IF s = <<>> \/ un.err = ErrSyntax THEN [v |-> IntOf(0), err |-> ErrSyntax]
        ELSE IF ~neg /\ (un.err = ErrRange \/ Leq64(cutoff, un.v))
        THEN [v |-> I64(FALSE, MaxOfBits(bits - 1)), err |-> ErrRange]
        ELSE IF neg /\ (un.err = ErrRange \/ Less64(cutoff, un.v))
        THEN [v |-> I64(TRUE, cutoff), err |-> ErrRange]
        ELSE [v |-> I64(neg, un.v), err |-> NoErr]

\* x rounded to 53 significant bits, ties to even (the float64 nearest to x);
\* over when the result is 2^64
Round53(x) ==
    LET s == TopBit(x) - 52
        low == x[1] % (2^s)
        half == 2^(s - 1)
        down == [x EXCEPT ![1] = @ - low]
        odd == ((x[1] \div (2^s)) % 2) = 1
        up == Add64(down, Pow2(s))
    IN  IF s <= 0 THEN [v |-> x, over |-> FALSE]
        ELSE IF low > half \/ (low = half /\ odd)
        THEN [v |-> up.v, over |-> up.carry # 0]
        ELSE [v |-> down, over |-> FALSE]

\* the float64 of a numeral, as far as its integer part goes: sign, the
\* integer part (rounded to float64 precision), and whether it is out of
\* the uint64 range.  Numerals with an exponent are not among the inputs of
\* the integer pulls.
Float64Of(num) ==
    LET neg == Head(num) = "-"
        ds == IF neg THEN Tail(num) ELSE num
        n == DigitsEnd(ds, 1) - 1
        p == ParseDigits(Zero64, Take(ds, n))
        r == Round53(p.v)
    IN  [neg |-> neg, mag |-> IF p.over THEN Zero64 ELSE r.v,
         huge |-> p.over \/ r.over]

\* int64(v) and uint64(v) of a float64 v; where v is out of the range of the
\* target type the result is implementation-dependent: arch names the
\* build ("amd64" yields the sign bit pattern, "arm64" saturates)
Archs == {"amd64", "arm64"}
MinInt64 == I64(TRUE, Pow2(63))
MaxInt64 == I64(FALSE, MaxOfBits(63))
MaxUint64 == MaxOfBits(64)
FloatToInt64(f, arch) ==
    IF f.huge \/ (~f.neg /\ Leq64(Pow2(63), f.mag)) \/ (f.neg /\ Less64(Pow2(63), f.mag))
    THEN IF arch = "amd64" \/ f.neg THEN MinInt64 ELSE MaxInt64
    ELSE I64(f.neg, f.mag)
FloatToUint64(f, arch) ==
    IF f.neg /\ f.mag # Zero64
    THEN IF arch = "amd64"
         THEN IF f.huge \/ Less64(Pow2(63), f.mag) THEN Pow2(63)
              ELSE Add64([i \in 1..4 |-> Radix - 1 - f.mag[i]], U64(1)).v
         ELSE Zero64
    ELSE IF f.huge THEN IF arch = "amd64" THEN Pow2(63) ELSE MaxUint64
    ELSE f.mag

(***************************************************************************)
(* Reader (reader.go).  A Reader is a record of its fields; a call yields  *)
(* the Reader after it and what it returns (b, i, s or bl by the type of   *)
(* the result; a nil slice is the empty sequence).  panic tells that the   *)
(* call did not return: popDelim indexed an empty delimstack.              *)
(***************************************************************************)
R == [d |-> d, err |-> err, tok |-> tok, delimstack |-> delimstack, delim |-> delim]

NewReader(data) ==
    [d |-> NewDecoder(data, FALSE), err |-> NoErr, tok |-> NilTok,
     delimstack |-> <<>>, delim |-> NoDelim]

Returns(c) ==
    [c |-> c, b |-> FALSE, i |-> IntOf(0), s |-> <<>>, bl |-> <<>>, panic |-> FALSE]

\* Reader.Reset for a source that holds data and, when open, will deliver more
ReaderReset(c, data, open) ==
    [c EXCEPT !.d = NewDecoder(data, open), !.delimstack = <<>>]

ResetBytes(c, data) == ReaderReset(c, data, FALSE)

ReaderErr(c) == c.err

\* fmt's %T of a token
TypeName(t) == IF t.k = "nil" THEN "<nil>" ELSE t.k

errExpected(c, expected) ==
    <<"expected", expected, "but got",
      IF c.tok.k = "Delim" THEN c.tok.v[1] ELSE TypeName(c.tok)>>

\* setError that replaces an error already recorded
ReaderSetError_Overwrite(c, er) ==
    [c EXCEPT !.err = IF er = ErrSyntax THEN errExpected(c, "number") ELSE er]

\* Reader.setError
ReaderSetError(c, er) ==
    IF c.err = NoErr
    THEN [c EXCEPT !.err = IF er = ErrSyntax THEN errExpected(c, "number") ELSE er]
    ELSE c

setErrorf(c, er) == IF c.err = NoErr THEN [c EXCEPT !.err = er] ELSE c

setErrorExpected(c, expected) == ReaderSetError(c, errExpected(c, expected))

Pulled(c, r) ==
    IF r.err # NoErr
    THEN ReaderSetError([c EXCEPT !.d = r.dec, !.tok = r.t], r.err)
    ELSE [c EXCEPT !.d = r.dec, !.tok = r.t]
next(c) == Pulled(c, Token(c.d))

\* Key that pulls a token without asking whether an element is pending
ReaderKey_IgnoreMore(c) ==
    IF next(c).tok.k = "string" THEN [Returns(next(c)) EXCEPT !.s = next(c).tok.v]
    ELSE Returns(setErrorExpected(next(c), "key"))

ReaderKey(c) ==
    LET m == DecMore(c.d)
        c1 == [c EXCEPT !.d = m.dec]
        c2 == next(c1)
    IN  IF ~m.ret THEN Returns(c1)
        ELSE IF c2.tok.k = "string" THEN [Returns(c2) EXCEPT !.s = c2.tok.v]
        ELSE Returns(setErrorExpected(c2, "key"))

\* pushDelim that pushes the new delimiter instead of the current one
pushDelim_PushNew(c, dl) ==
    IF next(c).tok # DelimTok(dl)
    THEN Returns(setErrorExpected(next(c), dl))
    ELSE [Returns([next(c) EXCEPT !.delimstack = Append(@, dl), !.delim = dl])
            EXCEPT !.b = TRUE]

pushDelim(c, dl) ==
    LET c1 == next(c)
    IN  IF c1.tok # DelimTok(dl)
        THEN Returns(setErrorExpected(c1, dl))
        ELSE [Returns([c1 EXCEPT !.delimstack = Append(@, c.delim), !.delim = dl])
                EXCEPT !.b = TRUE]

\* popDelim that pops the stack and leaves the current delimiter as it is
popDelim_KeepDelim(c) ==
    IF next(c).tok.k # "Delim" THEN Returns(next(c))
    ELSE IF next(c).delimstack = <<>> THEN [Returns(next(c)) EXCEPT !.panic = TRUE]
    ELSE Returns([next(c) EXCEPT !.delimstack = Front(@)])

\* the result of errExpected on a mismatch is dropped
popDelim(c) ==
    LET c1 == next(c)
    IN  IF c1.tok.k # "Delim" THEN Returns(c1)
        ELSE IF c1.delimstack = <<>> THEN [Returns(c1) EXCEPT !.panic = TRUE]
        ELSE Returns([c1 EXCEPT !.delim = Last(c1.delimstack),
                                !.delimstack = Front(@)])

ObjectStart(c) == pushDelim(c, "{")
ArrayStart(c) == pushDelim(c, "[")

More(c) ==
    LET m == DecMore(c.d)
        c1 == [c EXCEPT !.d = m.dec]
    IN  IF m.ret THEN [Returns(c1) EXCEPT !.b = TRUE] ELSE popDelim(c1)

ReaderInt(c, bitsize, arch) ==
    LET c1 == next(c)
        p == ParseInt(c1.tok.v, bitsize)
    IN  CASE c1.tok.k = "float64" ->
               [Returns(c1) EXCEPT !.i = FloatToInt64(Float64Of(c1.tok.v), arch)]
          [] c1.tok.k = "string" ->
               [Returns(IF p.err # NoErr THEN ReaderSetError(c1, p.err) ELSE c1)
                  EXCEPT !.i = p.v]
          [] OTHER -> Returns(setErrorExpected(c1, "number"))

\* Uint that reads a quoted numeral through float64 as it does a bare one
ReaderUint_ViaFloat(c, bitsize, arch) ==
    IF next(c).tok.k \in {"float64", "string"}
    THEN [Returns(next(c)) EXCEPT
            !.i = I64(FALSE, FloatToUint64(Float64Of(next(c).tok.v), arch))]
    ELSE Returns(setErrorExpected(next(c), "number"))

ReaderUint(c, bitsize, arch) ==
    LET c1 == next(c)
        p == ParseUint(c1.tok.v, bitsize)
    IN  CASE c1.tok.k = "float64" ->
               [Returns(c1) EXCEPT
                  !.i = I64(FALSE, FloatToUint64(Float64Of(c1.tok.v), arch))]
          [] c1.tok.k = "string" ->
               [Returns(IF p.err # NoErr THEN ReaderSetError(c1, p.err) ELSE c1)
                  EXCEPT !.i = I64(FALSE, p.v)]
          [] OTHER -> Returns(setErrorExpected(c1, "number"))

\* the float64 returned is written as its numeral
ReaderFloat(c, bitsize) ==
    LET c1 == next(c)
    IN  IF c1.tok.k = "float64" THEN [Returns(c1) EXCEPT !.s = c1.tok.v]
        ELSE Returns(setErrorExpected(c1, "number"))

ReaderBool(c) ==
    LET c1 == next(c)
    IN  IF c1.tok.k = "bool" THEN [Returns(c1) EXCEPT !.b = (c1.tok.v = jsonTrue)]
        ELSE Returns(setErrorExpected(c1, "boolean"))

ReaderStr(c) ==
    LET c1 == next(c)
    IN  IF c1.tok.k = "string" THEN [Returns(c1) EXCEPT !.s = c1.tok.v]
        ELSE Returns(setErrorExpected(c1, "string"))

ReaderBlob(c) ==
    LET r == ReaderStr(c)
        dcd == B64Decode(r.s)
    IN  IF Len(r.s) = 0 THEN Returns(r.c)
        ELSE [Returns(IF dcd.ok THEN r.c
                      ELSE setErrorf(r.c, <<"failed to decode blob">>))
                EXCEPT !.bl = dcd.buf]

\* Discard that drops a container delimiter without an error
Discard_Silent(c) == Returns(next(c))

Discard(c) ==
    LET c1 == next(c)
    IN  IF c1.tok.k = "Delim"
        THEN Returns(ReaderSetError(c1, <<"UNIMPLEMENTED json.Reader.Discard object",
                                         c1.tok.v[1]>>))
        ELSE Returns(c1)

(***************************************************************************)
(* Reader calls as actions.  rcall is the call made by the last step (op   *)
(* "none" when the step was no Reader call), opened the openers pushed and *)
(* not yet popped, got the calls made on the Reader with their results.    *)
(***************************************************************************)
RCall(op, bits, r) ==
    [op |-> op, bits |-> bits, b |-> r.b, i |-> r.i, s |-> r.s, bl |-> r.bl,
     panic |-> r.panic]
NoCall == RCall("none", 0, Returns(NewReader(<<>>)))

SetR(c) ==
    /\ d' = c.d
    /\ err' = c.err
    /\ tok' = c.tok
    /\ delimstack' = c.delimstack
    /\ delim' = c.delim

ReaderIs(c) ==
    /\ d = c.d
    /\ err = c.err
    /\ tok = c.tok
    /\ delimstack = c.delimstack
    /\ delim = c.delim

\* a Reader with no input yet
ReaderIdle ==
    /\ ReaderIs(NewReader(<<>>))
    /\ rcall = NoCall
    /\ opened = <<>>
    /\ got = <<>>
    /\ fed = 0

(***************************************************************************)
(* The Builder under test: any MaxCalls calls, misuse included, then up to *)
(* MaxTail more calls of the structural kind (containers, keys, small      *)
(* integers) as long as the sequence stays well formed.                    *)
(***************************************************************************)
MaxCalls == 3
MaxTail == 3
Indents == {<<>>, <<" ", " ">>}
Kinds == {"{", "["}
Closers == {"}", "]"}
KeyNames == {<<"a">>, <<"b">>}
SmallInts == {IntOf(1), IntOf(2)}
Floats == {FOneHalf, FNaN, FPosInf, FNegInf}
BuilderInitial(indent) ==
    /\ buf = <<>>
    /\ Err = NoErr
    /\ Indent = indent
    /\ KeyTerm = NilBytes
    /\ state = builderInit
    /\ nestdepth = 0
    /\ calls = <<>>
    /\ wf = WFInit

Init ==
    /\ \E indent \in Indents : BuilderInitial(indent)
    /\ ReaderIdle
    /\ phase = "build"

Allowed(c) ==
    \/ Len(calls) < MaxCalls
    \/ /\ Len(calls) < MaxCalls + MaxTail
       /\ \A i \in 1..Len(calls) : calls[i].op \in TailOps
       /\ c.op \in TailOps
       /\ WFStep(wf, c).ok

Next ==
    \/ \E kind \in Kinds : Allowed(Call("Start", kind, 0)) /\ DoStart(kind)
    \/ \E kind \in Closers : Allowed(Call("End", kind, 0)) /\ DoEnd(kind)
    \/ \E k \in KeyNames : Allowed(Call("Key", k, 0)) /\ DoKey(k)
    \/ Allowed(Call("RawKey", 0, 0)) /\ DoRawKey(<<"\"", "k", "\"">>)
    \/ Allowed(Call("Null", 0, 0)) /\ DoNull
    \/ Allowed(Call("Bool", TRUE, 0)) /\ DoBool(TRUE)
    \/ Allowed(Call("Str", 0, 0)) /\ DoStr(<<"b">>)
    \/ Allowed(Call("Blob", 0, 0)) /\ DoBlob(<<104>>)
    \/ \E v \in SmallInts : Allowed(Call("Int", v, 32)) /\ DoInt(v, 32)
    \/ Allowed(Call("Uint", 0, 0)) /\ DoUint(U64(7), 64)
    \/ \E f \in Floats : Allowed(Call("Float", f, 64)) /\ DoFloat(f, 64)
    \/ Allowed(Call("Raw", 0, 0)) /\ DoRaw(<<"1">>)
    \/ DoReset

Spec == Init /\ [][Next]_vars

\* a step that is one more Builder call (not Reset)
IsCallStep == Len(calls') = Len(calls) + 1
ThisCall == Last(calls')
Appended == SubSeq(buf', Len(buf) + 1, Len(buf'))

(***************************************************************************)
(* C1 (as claimed): in every reachable state with Err nil, whatever the    *)
(* calls were, the output is a prefix of some valid JSON document.         *)
(***************************************************************************)
C1_PrefixAnySequence == Err = NoErr => ValidPrefix(buf)

(***************************************************************************)
(* C1 (amended): in every reachable state with Err nil that a well-formed  *)
(* call sequence led to, the output is a prefix of some valid JSON         *)
(* document.                                                               *)
(***************************************************************************)
C1_PrefixWellFormed == (Err = NoErr /\ WellFormed(calls)) => ValidPrefix(buf)

C1_Witness ==
    /\ Err = NoErr
    /\ WellFormed(calls)
    /\ Len(calls) = MaxCalls + MaxTail
    /\ nestdepth = 2
    /\ state = builderValue
    /\ Len(Indent) > 0

(***************************************************************************)
(* C2: once Err is non-nil, no call other than Reset changes it.           *)
(***************************************************************************)
C2_StickyFirstError == [][(Err # NoErr /\ IsCallStep) => Err' = Err]_vars

(***************************************************************************)
(* C3: End(kind) called in state builderKey leaves Err non-nil, appends    *)
(* exactly the closing byte, decrements nestdepth by one and leaves the    *)
(* state builderValue.                                                     *)
(***************************************************************************)
C3_EndAfterKey ==
    [][(state = builderKey /\ IsCallStep /\ ThisCall.op = "End") =>
         /\ Err' # NoErr
         /\ buf' = Append(buf, ThisCall.a)
         /\ nestdepth' = nestdepth - 1
         /\ state' = builderValue]_vars

C3_Witness ==
    /\ Len(calls) >= 2
    /\ Last(calls).op = "End"
    /\ IsKeyCall(calls[Len(calls) - 1])
    /\ Err = <<"key without value">>

(***************************************************************************)
(* C10: Float with NaN, +Inf or -Inf leaves Err non-nil, the state         *)
(* builderValue and nestdepth unchanged, as a finite Float does; and the   *)
(* chunk that follows it starts with a comma.                              *)
(***************************************************************************)
C10_NonFiniteFloat ==
    [][/\ (IsCallStep /\ ThisCall.op = "Float" /\ IsNonFinite(ThisCall.a)) =>
            /\ Err' # NoErr
            /\ state' = builderValue
            /\ state' = Float(B, FOneHalf, ThisCall.b).state
            /\ nestdepth' = nestdepth
       /\ (/\ calls # <<>>
           /\ Last(calls).op = "Float"
           /\ IsNonFinite(Last(calls).a)
           /\ IsCallStep
           /\ IsChunkCall(ThisCall)) =>
            (Appended # <<>> /\ Head(Appended) = ",")]_vars

C10_Witness ==
    /\ Len(calls) >= 2
    /\ calls[Len(calls) - 1].op = "Float"
    /\ IsNonFinite(calls[Len(calls) - 1].a)
    /\ IsChunkCall(Last(calls))
    /\ nestdepth = 1

(***************************************************************************)
(* C8: a comma is written exactly at the start of a chunk (Key, Start or   *)
(* value) whose previous state is builderValue; with an empty Indent no    *)
(* whitespace is written; and StartObject, Key a, Int(1,32), Key b,        *)
(* Int(2,32), EndObject with an empty Indent gives {"a":1,"b":2}.          *)
(***************************************************************************)
ExampleCalls ==
    <<Call("Start", "{", 0), Call("Key", <<"a">>, 0), Call("Int", IntOf(1), 32),
      Call("Key", <<"b">>, 0), Call("Int", IntOf(2), 32), Call("End", "}", 0)>>
ExampleBytes ==
    <<"{", "\"", "a", "\"", ":", "1", ",", "\"", "b", "\"", ":", "2", "}">>

C8_CommaStep ==
    IsCallStep =>
        /\ IF state = builderValue /\ IsChunkCall(ThisCall)
           THEN Appended # <<>> /\ Head(Appended) = "," /\ Count(Appended, ",") = 1
           ELSE Count(Appended, ",") = 0
        /\ Indent = <<>> => \A i \in 1..Len(Appended) : ~IsSpace(Appended[i])

AfterComma == IF Appended # <<>> /\ Head(Appended) = "," THEN Tail(Appended) ELSE Appended
OwnLine(bytes, depth) ==
    LET lead == <<"\n">> \o Repeat(Indent, depth)
    IN  /\ HasPrefix(bytes, lead)
        /\ Len(bytes) > Len(lead)
        /\ ~IsSpace(bytes[Len(lead) + 1])

C9_LayoutStep ==
    (IsCallStep /\ Len(Indent) > 0 /\ wf'.ok) =>
        /\ (IsKeyCall(ThisCall) \/ (wf.stack # <<>> /\ Last(wf.stack) = "["
                                     /\ IsChunkCall(ThisCall))) =>
              OwnLine(AfterComma, nestdepth)
        /\ IsKeyCall(ThisCall) => HasSuffix(Appended, <<"\"", ":", " ">>)
        /\ (ThisCall.op = "End" /\ state # builderObj) =>
              Appended = <<"\n">> \o Repeat(Indent, nestdepth - 1) \o <<ThisCall.a>>
        /\ (ThisCall.op = "End" /\ state = builderObj) =>
              (Appended = <<ThisCall.a>> /\ Last(buf) = Last(wf.stack))

MaxEncCalls == 1
P53 == <<1, 0, 0, 32>>   \* 2^53 + 1 = 9007199254740993
IntSamples ==
    {IntOf(0), IntOf(-1), IntOf(123), IntOf(-128),
     I64(FALSE, MaxOfBits(31)), I64(TRUE, Pow2(31)),
     I64(FALSE, P53),
     I64(FALSE, MaxOfBits(63)), I64(TRUE, Pow2(63))}
UintSamples ==
    {U64(0), U64(255), MaxOfBits(32), P53,
     <<65535, 65535, 65535, 65535>>}
BitSizes == {8, 32, 33, 64}

FitsInt(v, bits) ==
    IF v.neg THEN Leq64(v.mag, Pow2(bits - 1)) ELSE Less64(v.mag, Pow2(bits - 1))
FitsUint(v, bits) == bits = 64 \/ Less64(v, Pow2(bits))

SignedTypes == {<<"int8", 8>>, <<"int16", 16>>, <<"int32", 32>>, <<"int64", 64>>}
UnsignedTypes == {<<"uint8", 8>>, <<"uint16", 16>>, <<"uint32", 32>>, <<"uint64", 64>>}
AnySigned ==
    {[t |-> x[1][1], v |-> x[2]] :
        x \in {y \in SignedTypes \X IntSamples : FitsInt(y[2], y[1][2])}}
AnyUnsigned ==
    {[t |-> x[1][1], v |-> x[2]] :
        x \in {y \in UnsignedTypes \X UintSamples : FitsUint(y[2], y[1][2])}}

EncPrefixes ==
    {<<>>, <<Call("Start", "[", 0)>>, <<Call("Start", "[", 0), Call("Null", 0, 0)>>,
     <<Call("Start", "{", 0), Call("Key", <<"a">>, 0)>>}

BuilderAfter(indent, pre) ==
    LET e == Replay(NewBuilder(indent), pre)
    IN  /\ buf = e.buf
        /\ Err = e.Err
        /\ Indent = e.Indent
        /\ KeyTerm = e.KeyTerm
        /\ state = e.state
        /\ nestdepth = e.nestdepth
        /\ calls = pre
        /\ wf = WFScan(WFInit, pre)

EncInit ==
    /\ \E indent \in Indents, pre \in EncPrefixes : BuilderAfter(indent, pre)
    /\ ReaderIdle
    /\ phase = "encode"

EncBounded ==
    \E pre \in EncPrefixes :
        /\ Len(calls) >= Len(pre)
        /\ Len(calls) < Len(pre) + MaxEncCalls
        /\ SameCalls(Take(calls, Len(pre)), pre)

EncNext ==
    \/ \E v \in IntSamples, bits \in BitSizes : EncBounded /\ DoInt(v, bits)
    \/ \E v \in UintSamples, bits \in BitSizes : EncBounded /\ DoUint(v, bits)
    \/ \E v \in AnySigned : EncBounded /\ DoAny(v)
    \/ \E v \in AnyUnsigned : EncBounded /\ DoAny(v)

SpecEnc == EncInit /\ [][EncNext]_vars

\* the value a digit string denotes, by Horner's rule; ok is FALSE past 2^64
RECURSIVE DecimalValue(_, _)
DecimalValue(acc, ds) ==
    IF ds = <<>> THEN [v |-> acc, ok |-> TRUE]
    ELSE IF ~IsDigit(Head(ds)) THEN [v |-> acc, ok |-> FALSE]
    ELSE LET m == MulAdd10(acc, DigitVal(Head(ds)))
         IN  IF m.carry # 0 THEN [v |-> m.v, ok |-> FALSE]
             ELSE DecimalValue(m.v, Tail(ds))

\* ds is the canonical decimal numeral of the magnitude mag
IsNumeralOf(ds, mag) ==
    /\ ds # <<>>
    /\ (Len(ds) > 1 => Head(ds) # "0")
    /\ DecimalValue(Zero64, ds).ok
    /\ DecimalValue(Zero64, ds).v = mag

IsDecimalOf(ds, neg, mag) ==
    IF neg THEN ds # <<>> /\ Head(ds) = "-" /\ IsNumeralOf(Tail(ds), mag)
    ELSE IsNumeralOf(ds, mag)

RECURSIVE SkipSeparators(_)
SkipSeparators(bytes) ==
    IF bytes # <<>> /\ (Head(bytes) = "," \/ IsSpace(Head(bytes)))
    THEN SkipSeparators(Tail(bytes))
    ELSE bytes

Quoted(bytes) == <<"\"">> \o bytes \o <<"\"">>
IsQuoted(bytes) == Len(bytes) >= 2 /\ Head(bytes) = "\"" /\ Last(bytes) = "\""
Unquoted(bytes) == SubSeq(bytes, 2, Len(bytes) - 1)

EncodedAs(bytes, wide, neg, mag) ==
    IF wide THEN IsQuoted(bytes) /\ IsDecimalOf(Unquoted(bytes), neg, mag)
    ELSE IsDecimalOf(bytes, neg, mag)

(***************************************************************************)
(* C7: Int(v, bitsize) and Uint(v, bitsize) write the decimal digits of v, *)
(* in double quotes when bitsize > 32 and bare when bitsize <= 32; Any     *)
(* writes int64 and uint64 quoted and the 8, 16 and 32 bit types bare.     *)
(***************************************************************************)
C7_IntStep ==
    IsCallStep =>
        LET c == ThisCall
            payload == SkipSeparators(Appended)
        IN  /\ c.op = "Int" => EncodedAs(payload, c.b > 32, c.a.neg, c.a.mag)
            /\ c.op = "Uint" => EncodedAs(payload, c.b > 32, FALSE, c.a)
            /\ (c.op = "Any" /\ c.a.t \in {"int64"}) =>
                  EncodedAs(payload, TRUE, c.a.v.neg, c.a.v.mag)
            /\ (c.op = "Any" /\ c.a.t \in {"uint64"}) =>
                  EncodedAs(payload, TRUE, FALSE, c.a.v)
            /\ (c.op = "Any" /\ c.a.t \in {"int8", "int16", "int32"}) =>
                  EncodedAs(payload, FALSE, c.a.v.neg, c.a.v.mag)
            /\ (c.op = "Any" /\ c.a.t \in {"uint8", "uint16", "uint32"}) =>
                  EncodedAs(payload, FALSE, FALSE, c.a.v)

C7_IntegerEncoding == [][C7_IntStep]_vars

C7_Witness ==
    /\ calls # <<>>
    /\ Last(calls).op = "Uint"
    /\ Last(calls).b = 33
    /\ Last(calls).a = P53
    /\ HasSuffix(buf, Quoted(<<"9", "0", "0", "7", "1", "9", "9", "2", "5", "4",
                               "7", "4", "0", "9", "9", "3">>))

(***************************************************************************)
(* A Reader call as a step.  The call returns only when the source has     *)
(* delivered the bytes it needs; after a panic no call is made.            *)
(***************************************************************************)
OpenerOf(op) == IF op = "ObjectStart" THEN "{" ELSE "["

ReaderStep(op, bits, r, log) ==
    /\ phase = "read"
    /\ ~rcall.panic
    /\ ~r.c.d.blocked
    /\ SetR(r.c)
    /\ rcall' = RCall(op, bits, r)
    /\ opened' = CASE op \in {"ObjectStart", "ArrayStart"} /\ r.b ->
                        Append(opened, OpenerOf(op))
                   [] op = "More" /\ ~r.b /\ r.c.tok.k = "Delim" /\ opened # <<>> ->
                        Front(opened)
                   [] OTHER -> opened
    /\ got' = IF log THEN Append(got, RCall(op, bits, r)) ELSE got
    /\ UNCHANGED <<bvars, fed, phase>>

(***************************************************************************)
(* The Reader over a token stream.  The source delivers its bytes one      *)
(* chunk at a time (a delimiter, a separator, or a scalar with the byte    *)
(* that ends it) and may end at any point, so every stream of up to        *)
(* MaxFeed chunks is read by every sequence of calls.                      *)
(***************************************************************************)
MaxFeed == 3
Chunks == {<<"[">>, <<"]">>, <<"{">>, <<"}">>, <<",">>, <<":">>,
           <<"1", " ">>, <<"1", ",", "2", " ">>, <<"\"", "a", "\"">>,
           <<"t", "r", "u", "e", " ">>}
PullBits == {32}

RInit ==
    /\ BuilderInitial(<<>>)
    /\ ReaderIs(ReaderReset(NewReader(<<>>), <<>>, TRUE))
    /\ rcall = NoCall
    /\ opened = <<>>
    /\ got = <<>>
    /\ fed = 0
    /\ phase = "read"

Feed(chunk) ==
    /\ d.open
    /\ fed < MaxFeed
    /\ SkipSpace(d.in) \in {<<>>, <<",">>, <<":">>}
    /\ d' = [d EXCEPT !.in = @ \o chunk]
    /\ fed' = fed + 1
    /\ rcall' = NoCall
    /\ UNCHANGED <<bvars, err, tok, delimstack, delim, opened, got, phase>>

CloseInput ==
    /\ d.open
    /\ d' = [d EXCEPT !.open = FALSE]
    /\ rcall' = NoCall
    /\ UNCHANGED <<bvars, err, tok, delimstack, delim, opened, got, fed, phase>>

RNext ==
    \/ \E chunk \in Chunks : Feed(chunk)
    \/ CloseInput
    \/ ReaderStep("ObjectStart", 0, ObjectStart(R), FALSE)
    \/ ReaderStep("ArrayStart", 0, ArrayStart(R), FALSE)
    \/ ReaderStep("More", 0, More(R), FALSE)
    \/ ReaderStep("Key", 0, ReaderKey(R), FALSE)
    \/ \E bits \in PullBits, arch \in Archs :
          ReaderStep("Int", bits, ReaderInt(R, bits, arch), FALSE)
    \/ \E bits \in PullBits, arch \in Archs :
          ReaderStep("Uint", bits, ReaderUint(R, bits, arch), FALSE)
    \/ ReaderStep("Float", 64, ReaderFloat(R, 64), FALSE)
    \/ ReaderStep("Bool", 0, ReaderBool(R), FALSE)
    \/ ReaderStep("Str", 0, ReaderStr(R), FALSE)
    \/ ReaderStep("Blob", 0, ReaderBlob(R), FALSE)
    \/ ReaderStep("Discard", 0, Discard(R), FALSE)

SpecR == RInit /\ [][RNext]_vars

\* the next byte of the stream that is no white space ("" at its end), and
\* whether the tokenizer delivers it as a closing delimiter
NextByte == IF SkipSpace(d.in) = <<>> THEN "" ELSE Head(SkipSpace(d.in))
DeliversCloser ==
    \/ NextByte = "]" /\ d.tokenState \in {"tokenArrayStart", "tokenArrayComma"}
    \/ NextByte = "}" /\ d.tokenState \in {"tokenObjectStart", "tokenObjectComma"}
NothingConsumed == d'.in = SkipSpace(d.in)
CloserConsumed == NextByte \in Closers /\ d'.in = Tail(SkipSpace(d.in))
StackUnchanged == delimstack' = delimstack /\ delim' = delim
\* the opening delimiter of the container around the innermost open one
Enclosing == IF Len(opened) <= 1 THEN NoDelim ELSE opened[Len(opened) - 1]
Popped == Len(delimstack') = Len(delimstack) - 1 /\ delim' = Enclosing
IsMoreStep == rcall'.op = "More"

(***************************************************************************)
(* C5: when More reaches the end of a container and the closing delimiter  *)
(* in the stream does not match the container's opening delimiter (the     *)
(* stream `[1,2}`), the Reader's Err is non-nil afterwards and names the   *)
(* expected closing delimiter.  Taken for a Reader without an earlier      *)
(* error.                                                                  *)
(***************************************************************************)
C5_MismatchStep ==
    (/\ IsMoreStep
     /\ ~rcall'.b
     /\ err = NoErr
     /\ delim # NoDelim
     /\ NextByte \in Closers
     /\ NextByte # CloserOf(delim))
    => /\ err' # NoErr
       /\ err'[1] = "expected"
       /\ err'[2] = CloserOf(delim)
C5_MismatchNamesExpected == [][C5_MismatchStep]_vars

(***************************************************************************)
(* C6 (as claimed): whenever More returns false while a container is open, *)
(* the call has consumed the closing delimiter and popped the delimiter    *)
(* stack (depth one less, current delimiter that of the enclosing          *)
(* container); whenever it returns true nothing is consumed and the stack  *)
(* is unchanged; streams that end or fail before the closing delimiter     *)
(* included.                                                               *)
(***************************************************************************)
C6_ClaimedStep ==
    IsMoreStep =>
        IF rcall'.b THEN NothingConsumed /\ StackUnchanged
        ELSE Len(delimstack) >= 1 => CloserConsumed /\ Popped
C6_MoreStep ==
    IsMoreStep =>
        /\ rcall'.b => NothingConsumed /\ StackUnchanged
        /\ rcall'.b <=> NextByte # "" /\ NextByte \notin Closers
        /\ (~rcall'.b /\ Len(delimstack) >= 1 /\ DeliversCloser)
              => CloserConsumed /\ Popped
        /\ (~rcall'.b /\ ~DeliversCloser)
              => err' # NoErr /\ NothingConsumed /\ StackUnchanged
MaxRTCalls == 4
RTKeys == {<<"a">>, <<"k", "\"">>, <<"xFF">>}
RTStrings == {<<>>, <<"b", "\"", "\\", "\n", "U+2028">>, <<"a", "xFF">>}
RTBlobs == {<<>>, <<104, 105>>}
RTInts ==
    {<<IntOf(-5), 8>>, <<I64(FALSE, MaxOfBits(31)), 32>>, <<IntOf(7), 33>>,
     <<I64(FALSE, P53), 64>>, <<I64(TRUE, Pow2(63)), 64>>}
RTUints ==
    {<<U64(255), 8>>, <<MaxOfBits(32), 32>>, <<P53, 64>>, <<MaxUint64, 64>>}

\* the Reader calls that mirror the Builder calls cs, each with the result
\* the original calls predict; stack holds the open containers
Expect(op, bits) == RCall(op, bits, Returns(NewReader(<<>>)))
MoreIfElement(stack) ==
    IF stack # <<>> /\ Last(stack) = "["
    THEN <<[Expect("More", 0) EXCEPT !.b = TRUE]>>
    ELSE <<>>
MirrorOf(c) ==
    CASE c.op = "Start" ->
           [Expect(IF c.a = "{" THEN "ObjectStart" ELSE "ArrayStart", 0)
              EXCEPT !.b = TRUE]
      [] c.op = "Key" -> [Expect("Key", 0) EXCEPT !.s = c.a]
      [] c.op = "Bool" -> [Expect("Bool", 0) EXCEPT !.b = c.a]
      [] c.op = "Str" -> [Expect("Str", 0) EXCEPT !.s = c.a]
      [] c.op = "Blob" -> [Expect("Blob", 0) EXCEPT !.bl = c.a]
      [] c.op = "Int" -> [Expect("Int", c.b) EXCEPT !.i = c.a]
      [] c.op = "Uint" -> [Expect("Uint", c.b) EXCEPT !.i = I64(FALSE, c.a)]

RECURSIVE Mirror(_, _)
Mirror(cs, stack) ==
    IF cs = <<>> THEN <<>>
    ELSE IF Head(cs).op = "End"
    THEN <<Expect("More", 0)>> \o Mirror(Tail(cs), Front(stack))
    ELSE IF Head(cs).op = "Key"
    THEN <<[Expect("More", 0) EXCEPT !.b = TRUE], MirrorOf(Head(cs))>>
         \o Mirror(Tail(cs), stack)
    ELSE MoreIfElement(stack) \o <<MirrorOf(Head(cs))>>
         \o Mirror(Tail(cs),
                   IF Head(cs).op = "Start" THEN Append(stack, Head(cs).a) ELSE stack)

Script == Mirror(calls, <<>>)

RTInit ==
    /\ \E indent \in Indents : BuilderInitial(indent)
    /\ ReaderIdle
    /\ phase = "build"

RTAllowed(c) ==
    /\ phase = "build"
    /\ Len(calls) < MaxRTCalls
    /\ WFStep(wf, c).ok

\* NewReader over the finished document
StartRead ==
    /\ phase = "build"
    /\ wf.ok /\ wf.rootDone
    /\ Err = NoErr
    /\ SetR(NewReader(buf))
    /\ phase' = "read"
    /\ UNCHANGED <<bvars, rcall, opened, got, fed>>

\* the next mirrored call is op
Mirrored(op) ==
    /\ phase = "read"
    /\ Len(got) < Len(Script)
    /\ Script[Len(got) + 1].op = op
MirroredBits == Script[Len(got) + 1].bits

RTNext ==
    \/ \E kind \in Kinds : RTAllowed(Call("Start", kind, 0)) /\ DoStart(kind)
    \/ \E kind \in Closers : RTAllowed(Call("End", kind, 0)) /\ DoEnd(kind)
    \/ \E k \in RTKeys : RTAllowed(Call("Key", k, 0)) /\ DoKey(k)
    \/ \E v \in BOOLEAN : RTAllowed(Call("Bool", v, 0)) /\ DoBool(v)
    \/ \E s \in RTStrings : RTAllowed(Call("Str", s, 0)) /\ DoStr(s)
    \/ \E data \in RTBlobs : RTAllowed(Call("Blob", data, 0)) /\ DoBlob(data)
    \/ \E x \in RTInts : RTAllowed(Call("Int", x[1], x[2])) /\ DoInt(x[1], x[2])
    \/ \E x \in RTUints : RTAllowed(Call("Uint", x[1], x[2])) /\ DoUint(x[1], x[2])
    \/ StartRead
    \/ Mirrored("ObjectStart") /\ ReaderStep("ObjectStart", 0, ObjectStart(R), TRUE)
    \/ Mirrored("ArrayStart") /\ ReaderStep("ArrayStart", 0, ArrayStart(R), TRUE)
    \/ Mirrored("More") /\ ReaderStep("More", 0, More(R), TRUE)
    \/ Mirrored("Key") /\ ReaderStep("Key", 0, ReaderKey(R), TRUE)
    \/ Mirrored("Bool") /\ ReaderStep("Bool", 0, ReaderBool(R), TRUE)
    \/ Mirrored("Str") /\ ReaderStep("Str", 0, ReaderStr(R), TRUE)
    \/ Mirrored("Blob") /\ ReaderStep("Blob", 0, ReaderBlob(R), TRUE)
    \/ \E arch \in Archs :
          /\ Mirrored("Int")
          /\ ReaderStep("Int", MirroredBits, ReaderInt(R, MirroredBits, arch), TRUE)
    \/ \E arch \in Archs :
          /\ Mirrored("Uint")
          /\ ReaderStep("Uint", MirroredBits, ReaderUint(R, MirroredBits, arch), TRUE)

SpecRT == RTInit /\ [][RTNext]_vars

\* every string and key handed to the Builder is valid UTF-8
IsText(s) == \A j \in 1..Len(s) : s[j] # "xFF"
AllText == \A j \in 1..Len(calls) : calls[j].op \in {"Str", "Key"} => IsText(calls[j].a)
ReadDone == phase = "read" /\ Len(got) = Len(Script)
ReadBack ==
    /\ got = Take(Script, Len(got))
    /\ err = NoErr
    /\ ReadDone => delimstack = <<>>

(***************************************************************************)
(* C4 (as claimed): for every well-formed Builder call sequence of bools,  *)
(* strings, blobs and integers that fit their bit width, the mirrored      *)
(* Reader calls return exactly the original keys and values in order,      *)
(* leave Err nil and end with an empty delimiter stack.                    *)
(***************************************************************************)
C4_RoundTripAnyString == phase = "read" => ReadBack

(***************************************************************************)
(* C4 (amended): the same for call sequences whose strings and keys are    *)
(* valid UTF-8; an invalid byte is written as the escape of U+FFFD and     *)
(* read back as U+FFFD.                                                    *)
(***************************************************************************)
C4_RoundTrip == (phase = "read" /\ AllText) => ReadBack

\* a pretty-printed array holding 2^53 + 1 as a uint64 and a string with
\* escapes has been read back to its end
C4_Witness ==
    /\ ReadDone
    /\ Indent # <<>>
    /\ Len(calls) = 4
    /\ calls[1].op = "Start" /\ calls[1].a = "["
    /\ calls[2].op = "Uint" /\ calls[2].a = P53 /\ calls[2].b = 64
    /\ calls[3].op = "Str" /\ Len(calls[3].a) = 5
    /\ Len(got) = 6
    /\ got[3].op = "Uint" /\ got[3].i = I64(FALSE, P53)
    /\ got[5].op = "Str" /\ got[5].s = <<"b", "\"", "\\", "\n", "U+2028">>
    /\ got[6].op = "More" /\ ~got[6].b
    /\ err = NoErr
    /\ delimstack = <<>>

(***************************************************************************)
(* The depth of nesting and the guard InObject.                            *)
(***************************************************************************)
CountOp(cs, op) == Cardinality({i \in 1..Len(cs) : cs[i].op = op})

(***************************************************************************)
(* C11: in every state reachable from a fresh or Reset Builder, nestdepth  *)
(* is not negative and equals the number of Start calls minus the number   *)
(* of End calls since the last Reset.                                      *)
(***************************************************************************)
C11_NestDepthNonNegative ==
    /\ nestdepth >= 0
    /\ nestdepth = CountOp(calls, "Start") - CountOp(calls, "End")

(***************************************************************************)
(* C12: an End called in a state where InObject() returns true leaves Err  *)
(* as it was and nestdepth not negative.                                   *)
(***************************************************************************)
C12_EndStep ==
    (IsCallStep /\ ThisCall.op = "End" /\ InObject(B)) =>
        (Err' = Err /\ nestdepth' >= 0)

C12_InObjectGuardsEnd == [][C12_EndStep]_vars

\* a container holding a value has been closed from a state where InObject
\* returned true, and no error is recorded
C12_Witness ==
    /\ Len(calls) >= 3
    /\ Last(calls).op = "End"
    /\ calls[Len(calls) - 1].op = "Int"
    /\ InObject(Replay(NewBuilder(Indent), Front(calls)))
    /\ Err = NoErr
    /\ nestdepth = 0

(***************************************************************************)
(* A Builder reused across documents: calls, assignments to the public     *)
(* field Indent, and Reset.  phase is "reset" from a Reset until Indent is *)
(* assigned again, and calls holds the calls made since the last Reset.    *)
(***************************************************************************)
MaxResetCalls == 3
ResetIndents == {<<>>, <<" ", " ">>, <<"\t">>}

ResetInit ==
    /\ \E indent \in Indents : BuilderInitial(indent)
    /\ ReaderIdle
    /\ phase = "used"

SetIndent(indent) ==
    /\ indent # Indent
    /\ Indent' = indent
    /\ phase' = "used"
    /\ UNCHANGED <<buf, Err, KeyTerm, state, nestdepth, calls, wf, rvars>>

ResetForReuse ==
    /\ SetB(Reset(B))
    /\ calls' = <<>>
    /\ wf' = WFInit
    /\ phase' = "reset"
    /\ UNCHANGED rvars

ResetBounded == Len(calls) < MaxResetCalls

ResetNext ==
    \/ \E kind \in Kinds : ResetBounded /\ DoStart(kind)
    \/ \E kind \in Closers : ResetBounded /\ DoEnd(kind)
    \/ ResetBounded /\ DoKey(<<"a">>)
    \/ ResetBounded /\ DoInt(IntOf(1), 32)
    \/ ResetBounded /\ DoFloat(FNaN, 64)
    \/ \E indent \in ResetIndents : SetIndent(indent)
    \/ ResetForReuse

SpecReset == ResetInit /\ [][ResetNext]_vars

IsResetStep == phase' = "reset" /\ calls' = <<>> /\ Indent' = Indent

\* what Reset leaves behind
ResetClears ==
    IsResetStep =>
        /\ buf' = <<>>
        /\ Err' = NoErr
        /\ state' = builderInit
        /\ nestdepth' = 0
        /\ Indent' = Indent

\* the Builder is where a new Builder with the current Indent would be after
\* the calls made since the Reset
SameAsFresh ==
    /\ buf = Replay(NewBuilder(Indent), calls).buf
    /\ Err = Replay(NewBuilder(Indent), calls).Err

\* the key terminator is unset, or it is the one a new Builder with the
\* current Indent fixes in its first chunk and the calls begin with a chunk
KeyTermFits ==
    \/ KeyTerm = NilBytes
    \/ /\ KeyTerm = IF Len(Indent) > 0 THEN <<":", " ">> ELSE <<":">>
       /\ (calls = <<>> \/ calls[1].op # "End")

(***************************************************************************)
(* C13 (as claimed): Reset empties the output, clears Err, sets the state  *)
(* Initial and the depth 0 and keeps Indent, and from then on the output   *)
(* and Err are those of a new Builder with the current Indent given the    *)
(* same calls, whatever calls and Indent settings came before the Reset.   *)
(***************************************************************************)
C13_AnyIndentStep == ResetClears /\ (phase' = "reset" => SameAsFresh')

C13_ResetAnyIndent == [][C13_AnyIndentStep]_vars

(***************************************************************************)
(* C13 (amended): the same, for a Builder whose key terminator is still    *)
(* unset, or is the one that goes with the current Indent while the calls  *)
(* after the Reset begin with Start, a key or a value.  Reset keeps        *)
(* KeyTerm: after a change of Indent between empty and non-empty the keys  *)
(* of the next document carry the terminator of the previous one, and a    *)
(* new Builder whose first call is End never fixes a terminator at all.    *)
(***************************************************************************)
C13_ResetStep == ResetClears /\ ((phase' = "reset" /\ KeyTermFits') => SameAsFresh')

C13_ResetEquivalence == [][C13_ResetStep]_vars

\* after a pretty-printed document, a change of Indent and a Reset, an object
\* with a key and a value has been written
C13_Witness ==
    /\ phase = "reset"
    /\ Indent = <<"\t">>
    /\ KeyTerm = <<":", " ">>
    /\ Len(calls) = 3
    /\ calls[1].op = "Start" /\ calls[1].a = "{"
    /\ calls[2].op = "Key"
    /\ calls[3].op = "Int"
    /\ buf = <<"{", "\n", "\t", "\"", "a", "\"", ":", " ", "1">>

(***************************************************************************)
(* Reader errors, Key and Discard over a token stream.                     *)
(***************************************************************************)
IsPullStep == rcall'.op # "none"
\* the calls that begin by pulling a token
PullsFirst == rcall'.op \notin {"none", "More", "Key"}

(***************************************************************************)
(* C14: once the Reader's Err is non-nil no pull operation changes it, and *)
(* a call whose token pull fails records the tokenizer's error, not the    *)
(* kind mismatch that follows from it: Err is the first error recorded.    *)
(***************************************************************************)
C14_StickyStep ==
    /\ (IsPullStep /\ err # NoErr) => err' = err
    /\ (PullsFirst /\ err = NoErr /\ Token(d).err # NoErr) => err' = Token(d).err

C14_ReaderStickyError == [][C14_StickyStep]_vars

\* inside an array Bool met a number and recorded the mismatch, and a later
\* Str that met a number too left that error in place
C14_Witness ==
    /\ rcall.op = "Str"
    /\ tok = NumberTok(<<"2">>)
    /\ delim = "["
    /\ err = <<"expected", "boolean", "but got", "float64">>

IsKeyStep == rcall'.op = "Key"

(***************************************************************************)
(* C15 (as claimed): Key returns without recording an error only when the  *)
(* current delimiter is `{`, another element is pending and the token      *)
(* pulled is a string; in every other situation it records an error.       *)
(* Taken for a Reader without an earlier error.                            *)
(***************************************************************************)
C15_ClaimedStep ==
    (IsKeyStep /\ err = NoErr) =>
        (err' = NoErr <=> (delim = "{" /\ DecMore(d).ret /\ tok'.k = "string"))

C15_KeyOnlyInObject == [][C15_ClaimedStep]_vars

(***************************************************************************)
(* C15 (amended): Key looks at the token stream only, never at the current *)
(* delimiter.  With no element pending it returns "" and records nothing,  *)
(* pulls nothing; with an element pending it pulls one token, returns it   *)
(* when it is a string (at the top level and inside an array as well) and  *)
(* otherwise returns "" with an error recorded.                            *)
(***************************************************************************)
C15_KeyStep ==
    (IsKeyStep /\ err = NoErr) =>
        IF ~DecMore(d).ret
        THEN err' = NoErr /\ rcall'.s = <<>> /\ NothingConsumed /\ tok' = tok
        ELSE /\ d' = Token(DecMore(d).dec).dec
             /\ tok' = Token(DecMore(d).dec).t
             /\ IF tok'.k = "string"
                THEN err' = NoErr /\ rcall'.s = tok'.v
                ELSE err' # NoErr /\ rcall'.s = <<>>

C15_KeyValidity == [][C15_KeyStep]_vars

\* Key called inside an array returned the element "a" and recorded no error
C15_Witness ==
    /\ rcall.op = "Key"
    /\ rcall.s = <<"a">>
    /\ delim = "["
    /\ opened = <<"[">>
    /\ err = NoErr

IsDiscardStep == rcall'.op = "Discard"
Unimplemented == "UNIMPLEMENTED json.Reader.Discard object"

(***************************************************************************)
(* C18: Discard pulls exactly one token and leaves the delimiter stack as  *)
(* it is; a scalar is dropped without an error, a container delimiter      *)
(* records the error labelled UNIMPLEMENTED (kept out by an earlier error, *)
(* which stays) and nothing more of the stream is skipped.                 *)
(***************************************************************************)
C18_DiscardStep ==
    IsDiscardStep =>
        /\ d' = Token(d).dec
        /\ tok' = Token(d).t
        /\ StackUnchanged
        /\ (Token(d).err = NoErr /\ Token(d).t.k # "Delim") => err' = err
        /\ (Token(d).err = NoErr /\ Token(d).t.k = "Delim" /\ err = NoErr) =>
              err' = <<Unimplemented, Token(d).t.v[1]>>
        /\ err # NoErr => err' = err

C18_DiscardOneToken == [][C18_DiscardStep]_vars

\* Discard met the `[` of an array: the error is recorded, the `[` alone is
\* consumed and the Reader's delimiter stack is still empty
C18_Witness ==
    /\ rcall.op = "Discard"
    /\ tok = DelimTok("[")
    /\ err = <<Unimplemented, "[">>
    /\ d.tokenStack # <<>>
    /\ delimstack = <<>>
    /\ delim = NoDelim

(***************************************************************************)
(* The typed pulls as functions of the token and the bit size: a Reader    *)
(* created over one short document, then any pulls.                        *)
(***************************************************************************)
NumInputs ==
    {<<"\"", "3", "0", "0", "\"">>,
     <<"\"", "-", "1", "2", "9", "\"">>,
     <<"\"", "1", "2", "7", "\"">>,
     <<"\"", "1", "2", "x", "\"">>,
     <<"\"", "\"">>,
     <<"\"", "a", "G", "V", "s", "!", "\"">>,
     <<"\"", "a", "G", "k", "\"">>,
     <<"3", "0", "0">>,
     <<"-", "1">>,
     <<"7", "0", "0", "0", "0">>,
     <<"4", "2", "9", "4", "9", "6", "7", "2", "9", "6">>,
     <<"t", "r", "u", "e">>,
     <<"[", "1", ",", "\"", "3", "0", "0", "\"", "]">>}
NumBits == {8, 16, 32, 64}

NumInit ==
    /\ BuilderInitial(<<>>)
    /\ \E data \in NumInputs : ReaderIs(NewReader(data))
    /\ rcall = NoCall
    /\ opened = <<>>
    /\ got = <<>>
    /\ fed = 0
    /\ phase = "read"

NumNext ==
    \/ \E bits \in NumBits, arch \in Archs :
          ReaderStep("Int", bits, ReaderInt(R, bits, arch), FALSE)
    \/ \E bits \in NumBits, arch \in Archs :
          ReaderStep("Uint", bits, ReaderUint(R, bits, arch), FALSE)
    \/ ReaderStep("Float", 64, ReaderFloat(R, 64), FALSE)
    \/ ReaderStep("Bool", 0, ReaderBool(R), FALSE)
    \/ ReaderStep("Str", 0, ReaderStr(R), FALSE)
    \/ ReaderStep("Blob", 0, ReaderBlob(R), FALSE)
    \/ ReaderStep("Key", 0, ReaderKey(R), FALSE)
    \/ ReaderStep("ArrayStart", 0, ArrayStart(R), FALSE)

SpecNum == NumInit /\ [][NumNext]_vars

IsValuePull == rcall'.op \in {"Int", "Uint", "Float", "Bool", "Str", "Blob", "Key"}
\* the call records an error
RecordsError == err = NoErr /\ err' # NoErr
ReturnsZero ==
    /\ rcall'.i = IntOf(0)
    /\ rcall'.s = <<>>
    /\ rcall'.b = FALSE
    /\ rcall'.bl = <<>>

(***************************************************************************)
(* C16: a call of Int, Uint, Float, Bool, Str, Blob or Key that records an *)
(* error returns the zero value of its type.                               *)
(***************************************************************************)
C16_FailedStep == (IsValuePull /\ RecordsError) => ReturnsZero

C16_FailedPullsReturnZero == [][C16_FailedStep]_vars

(***************************************************************************)
(* C17: the value returned by Int(bitsize) lies in the range of a signed   *)
(* integer of bitsize bits and the value returned by Uint(bitsize) in the  *)
(* range of an unsigned one, for a bare number and for a quoted numeral.   *)
(***************************************************************************)
C17_WidthStep ==
    /\ rcall'.op = "Int" => FitsInt(rcall'.i, rcall'.bits)
    /\ rcall'.op = "Uint" =>
          (~rcall'.i.neg /\ FitsUint(rcall'.i.mag, rcall'.bits))

C17_IntegerWidth == [][C17_WidthStep]_vars

(***************************************************************************)
(* A Reader reused across documents: pulls on the current document, and    *)
(* ResetBytes with the next one at any point.                              *)
(***************************************************************************)
ReuseDocs ==
    {<<"[", "1", "]">>, <<"{", "\"", "a", "\"", ":", "[", "1">>, <<"t", "r", "u", "e">>,
     <<"1", " ">>, <<"]">>}

ReuseInit ==
    /\ BuilderInitial(<<>>)
    /\ \E data \in ReuseDocs : ReaderIs(NewReader(data))
    /\ rcall = NoCall
    /\ opened = <<>>
    /\ got = <<>>
    /\ fed = 0
    /\ phase = "read"

DoResetBytes(data) ==
    /\ phase = "read"
    /\ ~rcall.panic
    /\ SetR(ResetBytes(R, data))
    /\ rcall' = RCall("Reset", 0, Returns(R))
    /\ opened' = <<>>
    /\ UNCHANGED <<bvars, got, fed, phase>>

ReuseNext ==
    \/ \E data \in ReuseDocs : DoResetBytes(data)
    \/ ReaderStep("ObjectStart", 0, ObjectStart(R), FALSE)
    \/ ReaderStep("ArrayStart", 0, ArrayStart(R), FALSE)
    \/ ReaderStep("More", 0, More(R), FALSE)
    \/ ReaderStep("Key", 0, ReaderKey(R), FALSE)
    \/ \E arch \in Archs : ReaderStep("Int", 32, ReaderInt(R, 32, arch), FALSE)
    \/ ReaderStep("Bool", 0, ReaderBool(R), FALSE)

SpecReuse == ReuseInit /\ [][ReuseNext]_vars

(***************************************************************************)
(* C19: after Reset / ResetBytes, whatever calls came before, the          *)
(* delimiter stack is empty, the current delimiter is none, Err is nil and *)
(* the tokenizer is a new one over the new input: the Reader is the one    *)
(* NewReader creates for that input.                                       *)
(***************************************************************************)
C19_ResetStep ==
    rcall'.op = "Reset" =>
        /\ delimstack' = <<>>
        /\ delim' = NoDelim
        /\ err' = NoErr
        /\ d' = NewReader(d'.in).d

C19_ReaderResetEquivalence == [][C19_ResetStep]_vars

(***************************************************************************)
(* Every value emitter, Any with each kind of value included, applied to a *)
(* fresh or part-built Builder, and the Key or End that may follow.        *)
(***************************************************************************)
MaxEmitCalls == 2
MarshalError == <<"marshal failed">>
AnyValues ==
    <<[t |-> "nil", v |-> <<>>],
     [t |-> "bool", v |-> TRUE],
     [t |-> "string", v |-> <<"b">>],
     [t |-> "float64", v |-> FNaN],
     [t |-> "MarshalJSON", v |-> [json |-> <<"1">>, err |-> NoErr]],
     [t |-> "MarshalJSON", v |-> [json |-> <<>>, err |-> MarshalError]],
     [t |-> "struct", v |-> [json |-> <<"{", "}">>, err |-> NoErr]],
     [t |-> "chan", v |-> [json |-> <<>>, err |-> <<"json: unsupported type">>]]>>

EmitInit ==
    /\ \E indent \in Indents, pre \in EncPrefixes : BuilderAfter(indent, pre)
    /\ ReaderIdle
    /\ phase = "emit"

EmitBounded ==
    \E pre \in EncPrefixes :
        /\ Len(calls) >= Len(pre)
        /\ Len(calls) < Len(pre) + MaxEmitCalls
        /\ SameCalls(Take(calls, Len(pre)), pre)

EmitNext ==
    \/ EmitBounded /\ DoNull
    \/ EmitBounded /\ DoBool(FALSE)
    \/ EmitBounded /\ DoStr(<<"b">>)
    \/ EmitBounded /\ DoStrBytes(<<"b">>)
    \/ EmitBounded /\ DoBlob(<<104>>)
    \/ EmitBounded /\ DoInt(IntOf(1), 32)
    \/ EmitBounded /\ DoUint(U64(7), 64)
    \/ \E f \in {FOneHalf, FNaN} : EmitBounded /\ DoFloat(f, 64)
    \/ EmitBounded /\ DoRaw(<<"1">>)
    \/ \E i \in 1..Len(AnyValues) : EmitBounded /\ DoAny(AnyValues[i])
    \/ EmitBounded /\ DoKey(<<"b">>)
    \/ \E kind \in Closers : EmitBounded /\ DoEnd(kind)

SpecEmit == EmitInit /\ [][EmitNext]_vars

(***************************************************************************)
(* C20: every value emission (Null, Bool, Str, StrBytes, Blob, Int, Uint,  *)
(* Float, Raw, and Any of nil, a scalar, a MarshalJSON value that succeeds *)
(* or fails, or a value left to the reflective fallback) leaves the state  *)
(* builderValue, also when the call records an error; an End that follows  *)
(* a value emission does not report "key without value".                   *)
(***************************************************************************)
C20_EmitStep ==
    /\ (IsCallStep /\ IsValueCall(ThisCall)) => state' = builderValue
    /\ (IsCallStep /\ ThisCall.op = "End" /\ calls # <<>> /\ IsValueCall(Last(calls)))
          => Err' = Err

C20_EmissionSetsValueState == [][C20_EmitStep]_vars

(***************************************************************************)
(* C21: with a non-empty Indent the first byte of the output is never a    *)
(* newline, whichever call (Start, End, Key or a value emitter) is made    *)
(* first on a fresh or Reset Builder; and a chunk started at depth 0 after *)
(* a value is separated from it by a comma with no newline.                *)
(***************************************************************************)
C21_NewlineStep ==
    /\ (Indent' # <<>> /\ buf' # <<>>) => Head(buf') # "\n"
    /\ (IsCallStep /\ IsChunkCall(ThisCall) /\ Indent # <<>>
          /\ state = builderValue /\ nestdepth = 0)
          => (Len(Appended) >= 2 /\ Appended[1] = "," /\ Appended[2] # "\n")

C21_NoLeadingNewline == [][C21_NewlineStep]_vars

(***************************************************************************)
(* C22: no Reader call reaches popDelim with a closing delimiter while the *)
(* delimiter stack is empty: no call indexes the empty stack and panics.   *)
(***************************************************************************)
C22_NoEmptyPop == ~rcall.panic

(***************************************************************************)
(* The Reader's delimiter stack against the nesting of the token stream:   *)
(* every stream of up to MaxFeed chunks read by ObjectStart, ArrayStart,   *)
(* More, Key and the typed pulls (no Discard, no Reset).                   *)
(***************************************************************************)
StackNext ==
    \/ \E chunk \in Chunks : Feed(chunk)
    \/ CloseInput
    \/ ReaderStep("ObjectStart", 0, ObjectStart(R), FALSE)
    \/ ReaderStep("ArrayStart", 0, ArrayStart(R), FALSE)
    \/ ReaderStep("More", 0, More(R), FALSE)
    \/ ReaderStep("Key", 0, ReaderKey(R), FALSE)
    \/ \E bits \in PullBits, arch \in Archs :
          ReaderStep("Int", bits, ReaderInt(R, bits, arch), FALSE)
    \/ \E bits \in PullBits, arch \in Archs :
          ReaderStep("Uint", bits, ReaderUint(R, bits, arch), FALSE)
    \/ ReaderStep("Float", 64, ReaderFloat(R, 64), FALSE)
    \/ ReaderStep("Bool", 0, ReaderBool(R), FALSE)
    \/ ReaderStep("Str", 0, ReaderStr(R), FALSE)
    \/ ReaderStep("Blob", 0, ReaderBlob(R), FALSE)

SpecStack == RInit /\ [][StackNext]_vars

\* the opening delimiter of the container a tokenizer state lies in (none at
\* the top level)
KindOf(ts) ==
    CASE ts \in {"tokenArrayStart", "tokenArrayValue", "tokenArrayComma"} -> "["
      [] ts \in {"tokenObjectStart", "tokenObjectKey", "tokenObjectColon",
                 "tokenObjectValue", "tokenObjectComma"} -> "{"
      [] OTHER -> NoDelim
\* the containers open in the stream read so far: the innermost one, and for
\* each open container the one around it, outermost first
StreamDelim == KindOf(d.tokenState)
StreamStack == [i \in 1..Len(d.tokenStack) |-> KindOf(d.tokenStack[i])]

\* the stack as the calls made it: one entry for each container entered by
\* ObjectStart/ArrayStart and not left by More, holding the delimiter that
\* was current on entry
CallStack == IF opened = <<>> THEN <<>> ELSE <<NoDelim>> \o Front(opened)
CallDelim == IF opened = <<>> THEN NoDelim ELSE Last(opened)

StackFollowsCalls ==
    /\ Len(delimstack) = Len(opened)
    /\ delimstack = CallStack
    /\ delim = CallDelim
StackFollowsStream ==
    /\ delimstack = StreamStack
    /\ delim = StreamDelim

IsStartStep == rcall'.op \in {"ObjectStart", "ArrayStart"}
\* a failed ObjectStart/ArrayStart changes nothing but Err, a successful one
\* pushes the current delimiter and makes the opener current
StartStep ==
    IsStartStep =>
        IF rcall'.b
        THEN /\ delimstack' = Append(delimstack, delim)
             /\ delim' = OpenerOf(rcall'.op)
             /\ err' = err
        ELSE StackUnchanged /\ err' # NoErr

\* More has popped the stack: it returned false at a closing delimiter
MoreLeaves ==
    IsMoreStep /\ ~rcall'.b /\ Len(delimstack') = Len(delimstack) - 1
\* the closing delimiter More consumed is that of the current container
LeavesCurrent == tok' = DelimTok(CloserOf(delim))

(***************************************************************************)
(* C23 (as claimed): in every reachable state the length of the delimiter  *)
(* stack is the number of successful ObjectStart/ArrayStart calls minus    *)
(* the number of containers closed by More, the current delimiter is the   *)
(* opening delimiter of the innermost open container (none at depth 0) and *)
(* the entries below it are those of the enclosing containers in nesting   *)
(* order, so that More leaves the current container only at its own        *)
(* closing delimiter; a failed ObjectStart/ArrayStart returns false,       *)
(* records an error and leaves the stack and the current delimiter         *)
(* unchanged.                                                              *)
(***************************************************************************)
C23_ClaimedStep ==
    /\ StartStep
    /\ StackFollowsCalls'
    /\ MoreLeaves => LeavesCurrent

C23_StackAlwaysTracksNesting == [][C23_ClaimedStep]_vars

(***************************************************************************)
(* C23 (amended): the stack always follows the calls (one entry for each   *)
(* container entered and not left, the bottom one the zero delimiter that  *)
(* was current at the top level), and as long as Err is nil it agrees with *)
(* the containers open in the stream and More leaves the current container *)
(* at its own closing delimiter.  Once a call has failed after consuming   *)
(* an opening delimiter, More pops the current container at the closing    *)
(* delimiter of that other container.                                      *)
(***************************************************************************)
C23_StackStep ==
    /\ StartStep
    /\ StackFollowsCalls'
    /\ (err = NoErr /\ MoreLeaves) => LeavesCurrent
    /\ err' = NoErr => StackFollowsStream'

C23_DelimiterStack == [][C23_StackStep]_vars

\* two arrays were entered and More has left the inner one: the outer `[` is
\* current again above the zero delimiter, and no error is recorded
C23_Witness ==
    /\ rcall.op = "More"
    /\ ~rcall.b
    /\ fed = 3
    /\ opened = <<"[">>
    /\ delim = "["
    /\ delimstack = <<NoDelim>>
    /\ d.tokenStack = <<"tokenTopValue">>
    /\ err = NoErr

====
